---- MODULE Spec2Model ----
(***************************************************************************)
(* Model of the HTML composition engine of flask-app:                      *)
(*   - the requirement resolver PageResourceData                           *)
(*     (app/system/utils/web_elements/requirements.py),                    *)
(*   - the element tree HTMLElement and its clone-on-call operation        *)
(*     (app/system/utils/web_elements/htmllib.py).                         *)
(* Python values are records carrying their class in the field cls, so     *)
(* that the isinstance checks of the code can be modelled.                 *)
(***************************************************************************)
EXTENDS Integers, Sequences, FiniteSets, TLC

(***************************************************************************)
(* Bounds of the model.                                                    *)
(***************************************************************************)
\* number of PageResourceData instances created in SpecPages
MaxPages == 2
\* number of add_script / add_style / add_resource calls in a behaviour
MaxCalls == 3
\* length of the lists passed to the add_*_list operations
MaxList == 2

(***************************************************************************)
(* Python values.                                                          *)
(***************************************************************************)
PyList(items) == [cls |-> "list", items |-> items]

PyStr(value) == [cls |-> "str", value |-> value]

Bool(value) == [cls |-> "bool", value |-> value]

PyInt(value) == [cls |-> "int", value |-> value]

None == [cls |-> "None"]

\* a member of the enumeration ScriptLoading
ScriptLoading(member) == [cls |-> "ScriptLoading", value |-> member]

\* an exception leaving a function that returns a value
Raise(name) == [cls |-> "raise", name |-> name]

IsInstance(value, cls) == value.cls = cls

\* isinstance(value, int): a bool is an int
IsInt(value) == value.cls \in {"int", "bool"}

\* the number an int or a bool is
IntOf(value) == IF value.cls = "bool" THEN (IF value.value THEN 1 ELSE 0) ELSE value.value

\* isinstance(value, list) and all(isinstance(item, cls) for item in value)
IsListOf(value, cls) ==
    /\ IsInstance(value, "list")
    /\ \A index \in 1..Len(value.items) : IsInstance(value.items[index], cls)

\* Resource.allowed_content_types
allowed_content_types == {"fetch", "font", "image", "script", "style", "track"}

\* Resource.__init__: the new object, or the TypeError of the type checks.
\* The arguments are Python values; the object holds the text of path and
\* content_type, and mime_type as it is (None or a str)
Resource(path, content_type, mime_type) ==
    IF ~IsInstance(path, "str")
    THEN Raise("TypeError")
    ELSE IF ~IsInstance(content_type, "str")
    THEN Raise("TypeError")
    ELSE IF content_type.value \notin allowed_content_types
    THEN Raise("TypeError")
    ELSE IF ~IsInstance(mime_type, "None") /\ ~IsInstance(mime_type, "str")
    THEN Raise("TypeError")
    ELSE [cls |-> "Resource", path |-> path.value, content_type |-> content_type.value,
          mime_type |-> mime_type]

\* ScriptRequirement.__init__: the new object, or the TypeError of the type
\* checks. The object holds the text of name and path, the number of
\* priority, the member of loading_technique and the list preload_resources
ScriptRequirement(name, path, priority, loading_technique, preload_resources) ==
    IF ~IsInstance(name, "str")
    THEN Raise("TypeError")
    ELSE IF ~IsInstance(path, "str")
    THEN Raise("TypeError")
    ELSE IF ~IsInt(priority)
    THEN Raise("TypeError")
    ELSE IF ~IsInstance(loading_technique, "ScriptLoading")
    THEN Raise("TypeError")
    ELSE IF ~IsListOf(preload_resources, "Resource")
    THEN Raise("TypeError")
    ELSE [cls |-> "ScriptRequirement", name |-> name.value, path |-> path.value,
          priority |-> IntOf(priority), loading_technique |-> loading_technique.value,
          preload_resources |-> preload_resources]

\* StyleRequirement.__init__: the new object, or the TypeError of the type
\* checks
StyleRequirement(name, path, priority, preload_resources) ==
    IF ~IsInstance(name, "str")
    THEN Raise("TypeError")
    ELSE IF ~IsInstance(path, "str")
    THEN Raise("TypeError")
    ELSE IF ~IsInt(priority)
    THEN Raise("TypeError")
    ELSE IF ~IsListOf(preload_resources, "Resource")
    THEN Raise("TypeError")
    ELSE [cls |-> "StyleRequirement", name |-> name.value, path |-> path.value,
          priority |-> IntOf(priority), preload_resources |-> preload_resources]

\* mutant of Hash: the hash of the whole object, not of its path alone
HashOfAllFields(obj) == obj

\* Resource.__hash__, ScriptRequirement.__hash__, StyleRequirement.__hash__:
\* the hash of the path (a string is identified with its hash).
Hash(obj) == obj.path

\* __eq__ of the three classes: hash(self) == hash(other)
Eq(obj, other) == Hash(obj) = Hash(other)

(***************************************************************************)
(* Python's set operations on sets of objects whose equality is Eq.        *)
(***************************************************************************)
\* obj in s
Contains(s, obj) == \E member \in s : Eq(member, obj)

\* s.add(obj): an element equal to obj that is already in s stays
SetAdd(s, obj) == IF Contains(s, obj) THEN s ELSE s \cup {obj}

\* s.difference_update(set([obj]))
SetDifferenceUpdate(s, obj) == {member \in s : ~Eq(member, obj)}

\* (set([obj]) & s).pop() for obj in s.  CPython's set intersection walks
\* the smaller operand (the right one when the sizes are equal) and keeps
\* the walked operand's elements: the element of s when s has one element,
\* obj itself when s has more.
IntersectionPop(obj, s) ==
    IF Cardinality(s) > Cardinality({obj})
    THEN obj
    ELSE CHOOSE member \in s : Eq(member, obj)

\* mutant of Outranks: a tie replaces the stored requirement too
OutranksOrTies(requirement, current) == requirement.priority >= current.priority

\* the priority comparison of add_script and add_style
Outranks(requirement, current) == requirement.priority > current.priority

(***************************************************************************)
(* PageResourceData: the operations as functions from the instance's three *)
(* sets (a record self) to [self, raised].                                 *)
(***************************************************************************)
Return(self) == [self |-> self, raised |-> "none"]

RaiseTypeError(self) == [self |-> self, raised |-> "TypeError"]

AllInstances(list, cls) ==
    \A index \in 1..Len(list.items) : IsInstance(list.items[index], cls)

\* mutant of add_resource: overwrite is ignored, the first writer always wins
add_resource_first_writer_wins(self, new_resource, overwrite) ==
    IF ~IsInstance(new_resource, "Resource")
    THEN RaiseTypeError(self)
    ELSE Return([self EXCEPT !.resource_preload =
                    IF \E member \in @ : member.path = new_resource.path
                    THEN @
                    ELSE @ \cup {new_resource}])

\* PageResourceData.add_resource
add_resource(self, new_resource, overwrite) ==
    IF ~IsInstance(new_resource, "Resource")
    THEN RaiseTypeError(self)
    ELSE IF overwrite
    THEN Return([self EXCEPT !.resource_preload =
                    SetAdd(SetDifferenceUpdate(@, new_resource), new_resource)])
    ELSE Return([self EXCEPT !.resource_preload = SetAdd(@, new_resource)])

\* the for loop of add_resource_list
RECURSIVE add_resource_loop(_, _, _)
add_resource_loop(self, items, overwrite) ==
    IF items = <<>>
    THEN Return(self)
    ELSE LET step == add_resource(self, Head(items), overwrite)
         IN  IF step.raised # "none"
             THEN step
             ELSE add_resource_loop(step.self, Tail(items), overwrite)

\* PageResourceData.add_resource_list
add_resource_list(self, resource_list, overwrite) ==
    IF ~IsInstance(resource_list, "list")
    THEN RaiseTypeError(self)
    ELSE IF ~AllInstances(resource_list, "Resource")
    THEN RaiseTypeError(self)
    ELSE add_resource_loop(self, resource_list.items, overwrite)

\* mutant of add_script: a declaration that loses or ties is dropped together
\* with its preload_resources
add_script_dropping_loser(self, script_requirement) ==
    IF ~IsInstance(script_requirement, "ScriptRequirement")
    THEN RaiseTypeError(self)
    ELSE IF Contains(self.script_requirements, script_requirement)
    THEN LET current_script_requirement ==
                 IntersectionPop(script_requirement, self.script_requirements)
         IN  IF Outranks(script_requirement, current_script_requirement)
             THEN add_resource_list(
                      [self EXCEPT !.script_requirements =
                          SetAdd(SetDifferenceUpdate(@, current_script_requirement),
                                 script_requirement)],
                      script_requirement.preload_resources, TRUE)
             ELSE Return(self)
    ELSE add_resource_list(
             [self EXCEPT !.script_requirements = SetAdd(@, script_requirement)],
             script_requirement.preload_resources, FALSE)

\* PageResourceData.add_script
add_script(self, script_requirement) ==
    IF ~IsInstance(script_requirement, "ScriptRequirement")
    THEN RaiseTypeError(self)
    ELSE IF Contains(self.script_requirements, script_requirement)
    THEN LET current_script_requirement ==
                 IntersectionPop(script_requirement, self.script_requirements)
         IN  IF Outranks(script_requirement, current_script_requirement)
             THEN add_resource_list(
                      [self EXCEPT !.script_requirements =
                          SetAdd(SetDifferenceUpdate(@, current_script_requirement),
                                 script_requirement)],
                      script_requirement.preload_resources, TRUE)
             ELSE add_resource_list(self, script_requirement.preload_resources, FALSE)
    ELSE add_resource_list(
             [self EXCEPT !.script_requirements = SetAdd(@, script_requirement)],
             script_requirement.preload_resources, FALSE)

\* the for loop of add_script_list
RECURSIVE add_script_loop(_, _)
add_script_loop(self, items) ==
    IF items = <<>>
    THEN Return(self)
    ELSE LET step == add_script(self, Head(items))
         IN  IF step.raised # "none"
             THEN step
             ELSE add_script_loop(step.self, Tail(items))

\* mutant of add_script_list: the items are not checked before the loop, so
\* the items before the first invalid one are added
add_script_list_unchecked(self, script_requirement_list) ==
    IF ~IsInstance(script_requirement_list, "list")
    THEN RaiseTypeError(self)
    ELSE add_script_loop(self, script_requirement_list.items)

\* PageResourceData.add_script_list
add_script_list(self, script_requirement_list) ==
    IF ~IsInstance(script_requirement_list, "list")
    THEN RaiseTypeError(self)
    ELSE IF ~AllInstances(script_requirement_list, "ScriptRequirement")
    THEN RaiseTypeError(self)
    ELSE add_script_loop(self, script_requirement_list.items)

\* mutant of add_style: the resources of a requirement stored for the first
\* time overwrite the stored ones
add_style_insert_overwriting(self, style_requirement) ==
    IF ~IsInstance(style_requirement, "StyleRequirement")
    THEN RaiseTypeError(self)
    ELSE IF Contains(self.style_requirements, style_requirement)
    THEN LET current_style_requirement ==
                 IntersectionPop(style_requirement, self.style_requirements)
         IN  IF Outranks(style_requirement, current_style_requirement)
             THEN add_resource_list(
                      [self EXCEPT !.style_requirements =
                          SetAdd(SetDifferenceUpdate(@, current_style_requirement),
                                 style_requirement)],
                      style_requirement.preload_resources, TRUE)
             ELSE add_resource_list(self, style_requirement.preload_resources, FALSE)
    ELSE add_resource_list(
             [self EXCEPT !.style_requirements = SetAdd(@, style_requirement)],
             style_requirement.preload_resources, TRUE)

\* mutant of add_style: a style stored for the first time is put among the
\* scripts
add_style_into_scripts(self, style_requirement) ==
    IF ~IsInstance(style_requirement, "StyleRequirement")
    THEN RaiseTypeError(self)
    ELSE IF Contains(self.style_requirements, style_requirement)
    THEN LET current_style_requirement ==
                 IntersectionPop(style_requirement, self.style_requirements)
         IN  IF Outranks(style_requirement, current_style_requirement)
             THEN add_resource_list(
                      [self EXCEPT !.style_requirements =
                          SetAdd(SetDifferenceUpdate(@, current_style_requirement),
                                 style_requirement)],
                      style_requirement.preload_resources, TRUE)
             ELSE add_resource_list(self, style_requirement.preload_resources, FALSE)
    ELSE add_resource_list(
             [self EXCEPT !.script_requirements = SetAdd(@, style_requirement)],
             style_requirement.preload_resources, FALSE)

\* PageResourceData.add_style
add_style(self, style_requirement) ==
    IF ~IsInstance(style_requirement, "StyleRequirement")
    THEN RaiseTypeError(self)
    ELSE IF Contains(self.style_requirements, style_requirement)
    THEN LET current_style_requirement ==
                 IntersectionPop(style_requirement, self.style_requirements)
         IN  IF Outranks(style_requirement, current_style_requirement)
             THEN add_resource_list(
                      [self EXCEPT !.style_requirements =
                          SetAdd(SetDifferenceUpdate(@, current_style_requirement),
                                 style_requirement)],
                      style_requirement.preload_resources, TRUE)
             ELSE add_resource_list(self, style_requirement.preload_resources, FALSE)
    ELSE add_resource_list(
             [self EXCEPT !.style_requirements = SetAdd(@, style_requirement)],
             style_requirement.preload_resources, FALSE)

\* the for loop of add_style_list
RECURSIVE add_style_loop(_, _)
add_style_loop(self, items) ==
    IF items = <<>>
    THEN Return(self)
    ELSE LET step == add_style(self, Head(items))
         IN  IF step.raised # "none"
             THEN step
             ELSE add_style_loop(step.self, Tail(items))

\* PageResourceData.add_style_list
add_style_list(self, style_requirement_list) ==
    IF ~IsInstance(style_requirement_list, "list")
    THEN RaiseTypeError(self)
    ELSE IF ~AllInstances(style_requirement_list, "StyleRequirement")
    THEN RaiseTypeError(self)
    ELSE add_style_loop(self, style_requirement_list.items)

(***************************************************************************)
(* The element tree.  A string of the rendering engine is a sequence of    *)
(* characters.  The mutable objects (elements and the dicts nested in      *)
(* attribute values) live in a heap and are referred to by address, so     *)
(* that two holders of one object see each other's changes.  An element    *)
(* holds its children list and its attribute and data dicts by value:      *)
(* __init__ and __call__ always build them anew (list(args) + children,    *)
(* {**attrs}), so no two elements share one.                               *)
(***************************************************************************)
INDENT == 2

Text(chars) == [cls |-> "str", value |-> chars]

Ref(addr) == [cls |-> "ref", addr |-> addr]

Entry(key, value) == [key |-> key, value |-> value]

Dict(items) == [cls |-> "dict", items |-> items]

\* global_var(key, default) and local_var(key, default): the functions they return
global_var(key, default) == [cls |-> "global_var", key |-> key, default |-> default]

local_var(key, default) == [cls |-> "local_var", key |-> key, default |-> default]

\* lambda ctx_global, ctx_local: value
Lambda(value) == [cls |-> "lambda", value |-> value]

\* callable(value), for a value that is no element
Callable(value) == value.cls \in {"global_var", "local_var", "lambda"}

\* isinstance(value, HTMLElement): a reference to an object of the heap that
\* is no dict. An element is callable: HTMLElement defines __call__
IsElement(heap, value) == value.cls = "ref" /\ heap[value.addr].cls # "dict"

\* isinstance(value, dict): a dict of the heap, or one nothing else refers to
IsDict(heap, value) ==
    \/ value.cls = "dict"
    \/ value.cls = "ref" /\ heap[value.addr].cls = "dict"

DictItems(heap, value) ==
    IF value.cls = "ref" THEN heap[value.addr].items ELSE value.items

Free == [cls |-> "free"]

ElementClasses ==
    {"tagDIV", "tagSPAN", "tagBR", "tagPRE", "tagB", "tagIMG", "tagSCRIPT", "tagSTYLE",
     "tagFORM", "Page"}

\* self_closing of the class
SelfClosing(cls) == cls \in {"tagBR", "tagIMG"}

\* HTMLElement.name: tag_name_override, or the class name without "tag", in
\* lower case
Name(cls) ==
    CASE cls = "tagDIV" -> <<"d", "i", "v">>
      [] cls = "tagSPAN" -> <<"s", "p", "a", "n">>
      [] cls = "tagBR" -> <<"b", "r">>
      [] cls = "tagPRE" -> <<"p", "r", "e">>
      [] cls = "tagB" -> <<"b">>
      [] cls = "tagIMG" -> <<"i", "m", "g">>
      [] cls = "tagSCRIPT" -> <<"s", "c", "r", "i", "p", "t">>
      [] cls = "tagSTYLE" -> <<"s", "t", "y", "l", "e">>
      [] cls = "tagFORM" -> <<"f", "o", "r", "m">>
      [] cls = "JSONData" -> <<"s", "c", "r", "i", "p", "t">>
      [] cls = "Page" -> <<"h", "t", "m", "l">>

\* an exception leaving a function that returns a string
Error(name) == <<"!", name>>

ErrorNames ==
    {"HTMLStructuralError", "HTMLAttributeEncodingError", "HTMLContextKeyError",
     "AttributeError", "JSONDecodeError", "TypeError", "ValueError", "IndexError",
     "RecursionError"}

IsError(string) == Len(string) = 2 /\ string[1] = "!" /\ string[2] \in ErrorNames

\* the element of a one-element set; {e : v \in {d}} is e with v bound to the
\* value of d
Only(set) == CHOOSE element \in set : TRUE

\* a + b, where evaluating a or b may raise
Cat(a, b) == IF IsError(a) THEN a ELSE IF IsError(b) THEN b ELSE a \o b

\* "".join(strings), joined by halves
RECURSIVE ConcatRange(_, _, _)
ConcatRange(strings, first, last) ==
    IF first > last
    THEN <<>>
    ELSE IF first = last
    THEN strings[first]
    ELSE ConcatRange(strings, first, (first + last) \div 2)
         \o ConcatRange(strings, (first + last) \div 2 + 1, last)

Concat(strings) == Only({ConcatRange(parts, 1, Len(parts)) : parts \in {strings}})

\* the first exception among the strings, if any
FirstError(strings) ==
    strings[CHOOSE i \in 1..Len(strings) :
                IsError(strings[i]) /\ \A j \in 1..(i - 1) : ~IsError(strings[j])]

HasError(strings) == \E i \in 1..Len(strings) : IsError(strings[i])

\* the strings added up from left to right, where evaluating one may raise
CatAll(strings) ==
    Only({IF HasError(parts) THEN FirstError(parts) ELSE Concat(parts) :
              parts \in {strings}})

Spaces(n) == [i \in 1..n |-> " "]

\* " ".join(strings)
RECURSIVE Join(_)
Join(strings) ==
    IF strings = <<>>
    THEN <<>>
    ELSE IF Len(strings) = 1
    THEN Head(strings)
    ELSE Head(strings) \o <<" ">> \o Join(Tail(strings))

\* the characters U+0001 to U+005F; a string holds neither U+0000 nor a lone
\* U+0060
CharactersToUnderscore ==
    <<"", "", "", "", "", "", "", "", "\t", "\n", "", "\f", "\r", "", "", "",
      "", "", "", "", "", "", "", "", "", "", "", "", "", "", "", " ",
      "!", "\"", "#", "$", "%", "&", "'", "(", ")", "*", "+", ",", "-", ".", "/", "0",
      "1", "2", "3", "4", "5", "6", "7", "8", "9", ":", ";", "<", "=", ">", "?", "@",
      "A", "B", "C", "D", "E", "F", "G", "H", "I", "J", "K", "L", "M", "N", "O", "P",
      "Q", "R", "S", "T", "U", "V", "W", "X", "Y", "Z", "[", "\\", "]", "^", "_">>

\* the characters U+0061 to U+00FF
CharactersFromA ==
    <<"a", "b", "c", "d", "e", "f", "g", "h", "i", "j", "k", "l", "m", "n", "o", "p",
      "q", "r", "s", "t", "u", "v", "w", "x", "y", "z", "{", "|", "}", "~", "", "",
      "", "", "", "", "", "", "", "", "", "", "", "", "", "", "", "",
      "", "", "", "", "", "", "", "", "", "", "", "", "", "", "", " ",
      "¡", "¢", "£", "¤", "¥", "¦", "§", "¨", "©", "ª", "«", "¬", "­", "®", "¯", "°",
      "±", "²", "³", "´", "µ", "¶", "·", "¸", "¹", "º", "»", "¼", "½", "¾", "¿", "À",
      "Á", "Â", "Ã", "Ä", "Å", "Æ", "Ç", "È", "É", "Ê", "Ë", "Ì", "Í", "Î", "Ï", "Ð",
      "Ñ", "Ò", "Ó", "Ô", "Õ", "Ö", "×", "Ø", "Ù", "Ú", "Û", "Ü", "Ý", "Þ", "ß", "à",
      "á", "â", "ã", "ä", "å", "æ", "ç", "è", "é", "ê", "ë", "ì", "í", "î", "ï", "ð",
      "ñ", "ò", "ó", "ô", "õ", "ö", "÷", "ø", "ù", "ú", "û", "ü", "ý", "þ", "ÿ">>

CodePoints == (1..255) \ {96}

\* chr(n)
Chr(n) == IF n < 96 THEN CharactersToUnderscore[n] ELSE CharactersFromA[n - 96]

\* ord(char)
Ord(char) == CHOOSE n \in CodePoints : Chr(n) = char

\* the characters below U+0020
ControlCharacters == {Chr(n) : n \in 1..31}

\* the characters U+0020 to U+007E
PrintableASCII == {Chr(n) : n \in (32..126) \ {96}}

\* the characters up to U+00FF that str.isspace() holds for: str.strip()
\* removes them
Whitespace ==
    {Chr(n) : n \in {9, 10, 11, 12, 13, 28, 29, 30, 31, 32, 133, 160}}

\* str.strip()
RECURSIVE Strip(_)
Strip(string) ==
    IF string = <<>>
    THEN <<>>
    ELSE IF Head(string) \in Whitespace
    THEN Strip(Tail(string))
    ELSE IF string[Len(string)] \in Whitespace
    THEN Strip(SubSeq(string, 1, Len(string) - 1))
    ELSE string

\* escape_html_text: "&" is replaced first, so the entities written by the
\* later replacements are not escaped again
EscapeChar(char) ==
    CASE char = "&" -> <<"&", "a", "m", "p", ";">>
      [] char = "<" -> <<"&", "l", "t", ";">>
      [] char = ">" -> <<"&", "g", "t", ";">>
      [] char = "\"" -> <<"&", "q", "u", "o", "t", ";">>
      [] char = "'" -> <<"&", "#", "x", "2", "7", ";">>
      [] OTHER -> <<char>>

\* escape_html_text without the entries of the two quote characters
escape_html_text_keeping_quotes(text) ==
    Concat([i \in 1..Len(text) |->
               IF text[i] \in {"\"", "'"} THEN <<text[i]>> ELSE EscapeChar(text[i])])

escape_html_text(text) == Concat([i \in 1..Len(text) |-> EscapeChar(text[i])])

UpperCase == <<"A", "B", "C", "D", "E", "F", "G", "H", "I", "J", "K", "L", "M",
               "N", "O", "P", "Q", "R", "S", "T", "U", "V", "W", "X", "Y", "Z">>

LowerCase == <<"a", "b", "c", "d", "e", "f", "g", "h", "i", "j", "k", "l", "m",
               "n", "o", "p", "q", "r", "s", "t", "u", "v", "w", "x", "y", "z">>

DigitChars == <<"0", "1", "2", "3", "4", "5", "6", "7", "8", "9">>

Range(sequence) == {sequence[i] : i \in 1..Len(sequence)}

Digits == Range(DigitChars)

\* the decimal digits of n + 1: list indices counted from one
RECURSIVE DecimalFromOne(_)
DecimalFromOne(n) ==
    IF n + 1 < 10
    THEN <<DigitChars[n + 2]>>
    ELSE DecimalFromOne((n + 1) \div 10 - 1) \o <<DigitChars[((n + 1) % 10) + 1]>>

\* str(n) of an int n >= 0
RECURSIVE Decimal(_)
Decimal(n) ==
    IF n < 10 THEN <<DigitChars[n + 1]>> ELSE Decimal(n \div 10) \o <<DigitChars[(n % 10) + 1]>>

Lower(char) == LowerCase[CHOOSE i \in 1..Len(UpperCase) : UpperCase[i] = char]

\* encode_attribute_key: re.sub("(?<=[a-z0-9])([A-Z])", "-" + lower, key)
encode_attribute_key(key) ==
    LET Encoded(i) ==
            IF /\ i > 1
               /\ key[i - 1] \in Range(LowerCase) \cup Digits
               /\ key[i] \in Range(UpperCase)
            THEN <<"-", Lower(key[i])>>
            ELSE <<key[i]>>
        RECURSIVE From(_)
        From(i) == IF i > Len(key) THEN <<>> ELSE Encoded(i) \o From(i + 1)
    IN  From(1)

\* str(value) of a value that is no element, dict or list
Str(value) ==
    IF value.cls = "bool"
    THEN IF value.value THEN <<"T", "r", "u", "e">> ELSE <<"F", "a", "l", "s", "e">>
    ELSE IF value.cls = "int"
    THEN Decimal(value.value)
    ELSE IF value.cls = "None"
    THEN <<"N", "o", "n", "e">>
    ELSE IF value.cls = "raise"
    THEN Error(value.name)
    ELSE value.value

\* key.split(".")
RECURSIVE Split(_)
Split(key) ==
    IF "." \notin Range(key)
    THEN <<key>>
    ELSE LET dot == CHOOSE i \in 1..Len(key) :
                        key[i] = "." /\ \A j \in 1..(i - 1) : key[j] # "."
         IN  <<SubSeq(key, 1, dot - 1)>> \o Split(SubSeq(key, dot + 1, Len(key)))

\* obj.get(key, default); obj may be no dict. No other value of the model has
\* an attribute get
DictGet(heap, obj, key, default) ==
    IF ~IsDict(heap, obj)
    THEN Raise("AttributeError")
    ELSE Only({IF \E i \in 1..Len(items) : items[i].key = key
               THEN items[CHOOSE i \in 1..Len(items) : items[i].key = key].value
               ELSE default : items \in {DictItems(heap, obj)}})

\* get_dict_subattribute, for a key that is a str
RECURSIVE get_dict_subattribute_loop(_, _, _, _)
get_dict_subattribute_loop(heap, obj, key_list, default) ==
    IF obj.cls = "raise"
    THEN obj
    ELSE IF Len(key_list) = 1
    THEN DictGet(heap, obj, key_list[1], default)
    ELSE get_dict_subattribute_loop(heap, DictGet(heap, obj, Head(key_list), Dict(<<>>)),
                                    Tail(key_list), default)

get_dict_subattribute(heap, obj, key, default) ==
    get_dict_subattribute_loop(heap, obj, Split(key), default)

\* function(global_context, local_context)
Invoke(heap, function, global_context, local_context) ==
    IF function.cls = "global_var"
    THEN get_dict_subattribute(heap, global_context, function.key, function.default)
    ELSE IF function.cls = "local_var"
    THEN get_dict_subattribute(heap, local_context, function.key, function.default)
    ELSE function.value

\* " ".join(encoded_items).strip(), where encoding an item may have raised
JoinStripped(strings) ==
    IF HasError(strings) THEN FirstError(strings) ELSE Strip(Join(strings))

\* whether text has the string literal at index i
StartsWith(text, i, literal) ==
    /\ i + Len(literal) - 1 <= Len(text)
    /\ \A k \in 1..Len(literal) : text[i + k - 1] = literal[k]

JSONWhitespace == {" ", "\t", "\n", "\r"}

\* the index of the first character at or after i that is no JSON whitespace
RECURSIVE SkipWhitespace(_, _)
SkipWhitespace(text, i) ==
    IF i >= 1 /\ i <= Len(text) /\ text[i] \in JSONWhitespace
    THEN SkipWhitespace(text, i + 1)
    ELSE i

\* the index after the digits that start at i
RECURSIVE SkipDigits(_, _)
SkipDigits(text, i) ==
    IF i <= Len(text) /\ text[i] \in Digits THEN SkipDigits(text, i + 1) ELSE i

\* json.loads scans a number: the index after it, or 0 when none starts at i
JSONNumber(text, i) ==
    LET int_start == IF i <= Len(text) /\ text[i] = "-" THEN i + 1 ELSE i
        int_end   == IF int_start <= Len(text) /\ text[int_start] = "0"
                     THEN int_start + 1
                     ELSE SkipDigits(text, int_start)
        frac_end  == IF /\ int_end < Len(text)
                        /\ text[int_end] = "."
                        /\ text[int_end + 1] \in Digits
                     THEN SkipDigits(text, int_end + 1)
                     ELSE int_end
        exp_start == IF /\ frac_end < Len(text)
                        /\ text[frac_end] \in {"e", "E"}
                        /\ text[frac_end + 1] \in {"+", "-"}
                     THEN frac_end + 2
                     ELSE frac_end + 1
        exp_end   == IF /\ frac_end <= Len(text)
                        /\ text[frac_end] \in {"e", "E"}
                        /\ exp_start <= Len(text)
                        /\ text[exp_start] \in Digits
                     THEN SkipDigits(text, exp_start)
                     ELSE frac_end
    IN  IF int_end = int_start THEN 0 ELSE exp_end

HexDigits == Digits \cup {"a", "b", "c", "d", "e", "f", "A", "B", "C", "D", "E", "F"}

\* json.loads scans a string: the index after the closing quote of the string
\* whose opening quote is before i, or 0. A strict decoder takes no control
\* character inside a string
RECURSIVE JSONString(_, _, _)
JSONString(text, i, strict) ==
    IF i > Len(text)
    THEN 0
    ELSE IF text[i] = "\""
    THEN i + 1
    ELSE IF strict /\ text[i] \in ControlCharacters
    THEN 0
    ELSE IF text[i] # "\\"
    THEN JSONString(text, i + 1, strict)
    ELSE IF i = Len(text)
    THEN 0
    ELSE IF text[i + 1] \in {"\"", "\\", "/", "b", "f", "n", "r", "t"}
    THEN JSONString(text, i + 2, strict)
    ELSE IF /\ text[i + 1] = "u"
            /\ i + 5 <= Len(text)
            /\ \A k \in 2..5 : text[i + k] \in HexDigits
    THEN JSONString(text, i + 6, strict)
    ELSE 0

JSONLiterals ==
    {<<"n", "u", "l", "l">>, <<"t", "r", "u", "e">>, <<"f", "a", "l", "s", "e">>,
     <<"N", "a", "N">>, <<"I", "n", "f", "i", "n", "i", "t", "y">>,
     <<"-", "I", "n", "f", "i", "n", "i", "t", "y">>}

\* json.loads scans a value: the index after the value that starts at i, or 0
RECURSIVE JSONValue(_, _, _)
RECURSIVE JSONArrayItems(_, _, _)
RECURSIVE JSONObjectPairs(_, _, _)
JSONValue(text, i, strict) ==
    IF i > Len(text)
    THEN 0
    ELSE IF text[i] = "\""
    THEN JSONString(text, i + 1, strict)
    ELSE IF text[i] = "["
    THEN LET first == SkipWhitespace(text, i + 1)
         IN  IF first <= Len(text) /\ text[first] = "]"
             THEN first + 1
             ELSE JSONArrayItems(text, first, strict)
    ELSE IF text[i] = "{"
    THEN LET first == SkipWhitespace(text, i + 1)
         IN  IF first <= Len(text) /\ text[first] = "}"
             THEN first + 1
             ELSE JSONObjectPairs(text, first, strict)
    ELSE IF \E literal \in JSONLiterals : StartsWith(text, i, literal)
    THEN i + Len(CHOOSE literal \in JSONLiterals : StartsWith(text, i, literal))
    ELSE JSONNumber(text, i)

\* the items of an array from the item that starts at i, up to the bracket
JSONArrayItems(text, i, strict) ==
    LET after == JSONValue(text, i, strict)
        next  == SkipWhitespace(text, after)
    IN  IF after = 0 \/ next > Len(text)
        THEN 0
        ELSE IF text[next] = "]"
        THEN next + 1
        ELSE IF text[next] = ","
        THEN JSONArrayItems(text, SkipWhitespace(text, next + 1), strict)
        ELSE 0

\* the pairs of an object from the key that starts at i, up to the brace
JSONObjectPairs(text, i, strict) ==
    LET key_end == IF i <= Len(text) /\ text[i] = "\""
                   THEN JSONString(text, i + 1, strict)
                   ELSE 0
        colon   == SkipWhitespace(text, key_end)
        after   == IF key_end # 0 /\ colon <= Len(text) /\ text[colon] = ":"
                   THEN JSONValue(text, SkipWhitespace(text, colon + 1), strict)
                   ELSE 0
        next    == SkipWhitespace(text, after)
    IN  IF after = 0 \/ next > Len(text)
        THEN 0
        ELSE IF text[next] = "}"
        THEN next + 1
        ELSE IF text[next] = ","
        THEN JSONObjectPairs(text, SkipWhitespace(text, next + 1), strict)
        ELSE 0

\* the decoder takes text: it is one JSON value between whitespace
JSONDecodes(text, strict) ==
    LET after == JSONValue(text, SkipWhitespace(text, 1), strict)
    IN  after # 0 /\ SkipWhitespace(text, after) = Len(text) + 1

\* json.loads(text) returns
json_loads_returns(text) == JSONDecodes(text, TRUE)

\* a character up to U+00FF inside a JSON string written by json.dumps
\* (ensure_ascii): the short escapes, the printable ASCII characters as they
\* are, \u and four hexadecimal digits for every other character
JSONEscapeChar(char) ==
    LET hex == <<"0", "1", "2", "3", "4", "5", "6", "7", "8", "9",
                 "a", "b", "c", "d", "e", "f">>
    IN  CASE char = "\"" -> <<"\\", "\"">>
          [] char = "\\" -> <<"\\", "\\">>
          [] char = "\n" -> <<"\\", "n">>
          [] char = "\r" -> <<"\\", "r">>
          [] char = "\t" -> <<"\\", "t">>
          [] char = "\f" -> <<"\\", "f">>
          [] char = Chr(8) -> <<"\\", "b">>
          [] char \in PrintableASCII -> <<char>>
          [] OTHER -> <<"\\", "u", "0", "0", hex[(Ord(char) \div 16) + 1],
                        hex[(Ord(char) % 16) + 1]>>

RECURSIVE JSONEscape(_)
JSONEscape(chars) ==
    IF chars = <<>> THEN <<>> ELSE JSONEscapeChar(Head(chars)) \o JSONEscape(Tail(chars))

\* separator.join(strings)
RECURSIVE JoinWith(_, _)
JoinWith(separator, strings) ==
    IF strings = <<>>
    THEN <<>>
    ELSE IF Len(strings) = 1
    THEN Head(strings)
    ELSE Head(strings) \o separator \o JoinWith(separator, Tail(strings))

\* bool(value)
Truthy(heap, value) ==
    CASE value.cls = "None" -> FALSE
      [] value.cls = "bool" -> value.value
      [] value.cls = "int" -> value.value # 0
      [] value.cls = "str" -> value.value # <<>>
      [] value.cls = "list" -> value.items # <<>>
      [] value.cls \notin {"None", "bool", "int", "str", "list"} ->
             IF IsDict(heap, value) THEN DictItems(heap, value) # <<>> ELSE TRUE

\* a < b for two str: the code points compared from the left, a proper
\* prefix before the longer string
StrLess(a, b) ==
    \E i \in 1..Len(b) :
        /\ \A j \in 1..(i - 1) : j <= Len(a) /\ a[j] = b[j]
        /\ i > Len(a) \/ Ord(a[i]) < Ord(b[i])

\* sorted(dct.items()): the items of a dict in the order of their keys
SortedItems(items) ==
    [i \in 1..Len(items) |->
        items[CHOOSE k \in 1..Len(items) :
                  Cardinality({j \in 1..Len(items) :
                                  StrLess(items[j].key, items[k].key)}) = i - 1]]

\* json.dumps writes value, with no keyword argument but sort_keys: the text,
\* TypeError for what is not JSON serializable (an element, a function),
\* ValueError for a dict of the heap met inside itself. markers are the dicts
\* being written. With sort_keys the items of every dict are written in the
\* order of their keys, else in the order they were inserted
RECURSIVE json_dumps_value(_, _, _, _)
json_dumps_value(heap, value, markers, sort_keys) ==
    CASE value.cls = "None" -> <<"n", "u", "l", "l">>
      [] value.cls = "bool" ->
             IF value.value THEN <<"t", "r", "u", "e">> ELSE <<"f", "a", "l", "s", "e">>
      [] value.cls = "int" -> Decimal(value.value)
      [] value.cls = "str" -> <<"\"">> \o JSONEscape(value.value) \o <<"\"">>
      [] value.cls = "list" ->
             LET dumped == [i \in 1..Len(value.items) |->
                               json_dumps_value(heap, value.items[i], markers, sort_keys)]
             IN  IF HasError(dumped)
                 THEN FirstError(dumped)
                 ELSE <<"[">> \o JoinWith(<<",", " ">>, dumped) \o <<"]">>
      [] value.cls \notin {"None", "bool", "int", "str", "list"} ->
             IF ~IsDict(heap, value)
             THEN Error("TypeError")
             ELSE IF DictItems(heap, value) = <<>>
             THEN <<"{", "}">>
             ELSE IF value.cls = "ref" /\ value.addr \in markers
             THEN Error("ValueError")
             ELSE LET items  == IF sort_keys
                                THEN SortedItems(DictItems(heap, value))
                                ELSE DictItems(heap, value)
                      inside == IF value.cls = "ref"
                                THEN markers \cup {value.addr}
                                ELSE markers
                      dumped == [i \in 1..Len(items) |->
                                    json_dumps_value(heap, items[i].value, inside, sort_keys)]
                  IN  IF HasError(dumped)
                      THEN FirstError(dumped)
                      ELSE <<"{">>
                           \o JoinWith(<<",", " ">>,
                                  [i \in 1..Len(dumped) |->
                                      <<"\"">> \o JSONEscape(items[i].key)
                                      \o <<"\"", ":", " ">> \o dumped[i]])
                           \o <<"}">>

\* json.dumps(value)
json_dumps(heap, value) == json_dumps_value(heap, value, {}, FALSE)

\* what json.dumps meets first while it writes value, in the order of
\* writing: a value that is not JSON serializable, a dict of the heap inside
\* itself, or none of the two. With sort_keys the items of every dict are
\* written in the order of their keys, else in the order they were inserted
RECURSIVE FirstEvent(_, _, _, _)
FirstEvent(heap, value, markers, sort_keys) ==
    CASE value.cls \in {"None", "bool", "int", "str"} -> "none"
      [] value.cls = "list" ->
             LET events == [i \in 1..Len(value.items) |->
                               FirstEvent(heap, value.items[i], markers, sort_keys)]
                 found  == {i \in 1..Len(events) : events[i] # "none"}
             IN  IF found = {}
                 THEN "none"
                 ELSE events[CHOOSE i \in found : \A j \in found : i <= j]
      [] value.cls \notin {"None", "bool", "int", "str", "list"} ->
             IF ~IsDict(heap, value)
             THEN "unserialisable"
             ELSE IF DictItems(heap, value) = <<>>
             THEN "none"
             ELSE IF value.cls = "ref" /\ value.addr \in markers
             THEN "circular"
             ELSE LET items  == IF sort_keys
                                THEN SortedItems(DictItems(heap, value))
                                ELSE DictItems(heap, value)
                      inside == IF value.cls = "ref"
                                THEN markers \cup {value.addr}
                                ELSE markers
                      events == [i \in 1..Len(items) |->
                                    FirstEvent(heap, items[i].value, inside, sort_keys)]
                      found  == {i \in 1..Len(events) : events[i] # "none"}
                  IN  IF found = {}
                      THEN "none"
                      ELSE events[CHOOSE i \in found : \A j \in found : i <= j]

\* value is a dict with a key, or a list that holds one somewhere
RECURSIVE HasNonEmptyDict(_, _)
HasNonEmptyDict(heap, value) ==
    IF value.cls = "list"
    THEN \E i \in 1..Len(value.items) : HasNonEmptyDict(heap, value.items[i])
    ELSE IsDict(heap, value) /\ DictItems(heap, value) # <<>>

\* what iterating over value gives, for a str, a list and a dict
IterItems(heap, value) ==
    CASE value.cls = "str" -> [i \in 1..Len(value.value) |-> Text(<<value.value[i]>>)]
      [] value.cls = "list" -> value.items
      [] value.cls \notin {"str", "list"} ->
             Only({[i \in 1..Len(items) |-> Text(items[i].key)] :
                   items \in {DictItems(heap, value)}})

\* the keyword arguments json.dumps knows
JSONDumpsArguments ==
    {<<"s", "k", "i", "p", "k", "e", "y", "s">>, <<"e", "n", "s", "u", "r", "e", "_", "a", "s", "c", "i", "i">>, <<"c", "h", "e", "c", "k", "_", "c", "i", "r", "c", "u", "l", "a", "r">>, <<"a", "l", "l", "o", "w", "_", "n", "a", "n">>, <<"c", "l", "s">>, <<"i", "n", "d", "e", "n", "t">>, <<"s", "e", "p", "a", "r", "a", "t", "o", "r", "s">>, <<"d", "e", "f", "a", "u", "l", "t">>, <<"s", "o", "r", "t", "_", "k", "e", "y", "s">>}

\* what json.dumps(obj, **kwargs) raises, "none" when it returns. Every
\* value given as cls raises TypeError when json.dumps calls it. separators
\* is unpacked into two values, which must be str where they are used:
\* without indent when the encoder is made, with indent when the first list
\* or dict with an item is entered (the first) and when the chunks are joined
\* (the second). default is called with the first value that is not JSON
\* serializable: a function raises TypeError, a self-closing element
\* HTMLStructuralError, another element returns a clone that is not JSON
\* serializable either, without end. sort_keys is taken for its truth value
json_dumps_raises(heap, obj, kwargs) ==
    LET Given(name) == DictGet(heap, kwargs, name, None)
        separators  == Given(<<"s", "e", "p", "a", "r", "a", "t", "o", "r", "s">>)
        indent      == Given(<<"i", "n", "d", "e", "n", "t">>)
        default     == Given(<<"d", "e", "f", "a", "u", "l", "t">>)
        unpacked    == IterItems(heap, separators)
        item_is_str == separators.cls = "None" \/ unpacked[1].cls = "str"
        key_is_str  == separators.cls = "None" \/ unpacked[2].cls = "str"
        sort_keys   == Truthy(heap, Given(<<"s", "o", "r", "t", "_", "k", "e", "y", "s">>))
        event       == FirstEvent(heap, obj, {}, sort_keys)
        in_value    ==
            CASE event = "none" -> "none"
              [] event = "circular" ->
                     IF Truthy(heap, DictGet(heap, kwargs, <<"c", "h", "e", "c", "k", "_", "c", "i", "r", "c", "u", "l", "a", "r">>, Bool(TRUE)))
                     THEN "ValueError"
                     ELSE "RecursionError"
              [] event = "unserialisable" ->
                     IF ~IsElement(heap, default)
                     THEN "TypeError"
                     ELSE IF /\ SelfClosing(heap[default.addr].cls)
                             /\ heap[default.addr].cls \notin {"Raw", "JSONData"}
                     THEN "HTMLStructuralError"
                     ELSE "RecursionError"
    IN  IF ~IsDict(heap, kwargs)
        THEN "TypeError"
        ELSE IF \E i \in 1..Len(DictItems(heap, kwargs)) :
                    DictItems(heap, kwargs)[i].key \notin JSONDumpsArguments
        THEN "TypeError"
        ELSE IF Given(<<"c", "l", "s">>).cls # "None"
        THEN "TypeError"
        ELSE IF /\ separators.cls \notin {"None", "str", "list"}
                /\ ~IsDict(heap, separators)
        THEN "TypeError"
        ELSE IF separators.cls # "None" /\ Len(unpacked) # 2
        THEN "ValueError"
        ELSE IF obj.cls = "str"
        THEN "none"
        ELSE IF indent.cls = "None"
        THEN IF item_is_str /\ key_is_str THEN in_value ELSE "TypeError"
        ELSE IF indent.cls \notin {"int", "bool", "str"}
        THEN "TypeError"
        ELSE IF ~item_is_str /\ HasNonEmptyDict(heap, obj)
        THEN "TypeError"
        ELSE IF ~item_is_str /\ obj.cls = "list" /\ obj.items # <<>>
        THEN "TypeError"
        ELSE IF in_value # "none"
        THEN in_value
        ELSE IF ~key_is_str /\ HasNonEmptyDict(heap, obj)
        THEN "TypeError"
        ELSE "none"

\* the keyword arguments json.loads and the decoder know, but strict
JSONLoadsArguments ==
    {<<"c", "l", "s">>, <<"o", "b", "j", "e", "c", "t", "_", "h", "o", "o", "k">>, <<"p", "a", "r", "s", "e", "_", "f", "l", "o", "a", "t">>, <<"p", "a", "r", "s", "e", "_", "i", "n", "t">>, <<"p", "a", "r", "s", "e", "_", "c", "o", "n", "s", "t", "a", "n", "t">>, <<"o", "b", "j", "e", "c", "t", "_", "p", "a", "i", "r", "s", "_", "h", "o", "o", "k">>}

\* what json.loads(text, **kwargs) raises, "none" when it returns. A cls
\* that is not callable raises TypeError, as does a keyword argument the
\* decoder does not know; strict is taken for its truth value. The model
\* covers no cls that is callable and no hook
json_loads_raises(heap, text, kwargs) ==
    LET Given(name) == DictGet(heap, kwargs, name, None)
        keys        == {DictItems(heap, kwargs)[i].key : i \in 1..Len(DictItems(heap, kwargs))}
        cls         == Given(<<"c", "l", "s">>)
        strict      == DictGet(heap, kwargs, <<"s", "t", "r", "i", "c", "t">>, Bool(TRUE))
    IN  IF ~IsDict(heap, kwargs)
        THEN "TypeError"
        ELSE IF <<"s">> \in keys
        THEN "TypeError"
        ELSE IF cls.cls # "None" /\ ~Callable(cls) /\ ~IsElement(heap, cls)
        THEN "TypeError"
        ELSE CASE cls.cls = "None" /\ ~(keys \subseteq JSONLoadsArguments \cup {<<"s", "t", "r", "i", "c", "t">>}) ->
                      "TypeError"
               [] /\ cls.cls = "None"
                  /\ keys \subseteq JSONLoadsArguments \cup {<<"s", "t", "r", "i", "c", "t">>}
                  /\ \A name \in JSONLoadsArguments : Given(name).cls = "None" ->
                      IF JSONDecodes(text, Truthy(heap, strict))
                      THEN "none"
                      ELSE "JSONDecodeError"

\* encode_attribute_value
RECURSIVE encode_attribute_value(_, _, _, _, _, _)
encode_attribute_value(heap, key, value, concatenator, global_context, local_context) ==
    LET EncodedItems(keys, values) ==
            [i \in 1..Len(values) |->
                encode_attribute_value(heap, key \o concatenator \o keys[i], values[i],
                                       concatenator, global_context, local_context)]
    IN  IF IsDict(heap, value)
        THEN LET items == DictItems(heap, value)
             IN  Strip(JoinStripped(EncodedItems([i \in 1..Len(items) |-> items[i].key],
                                                 [i \in 1..Len(items) |-> items[i].value])))
        ELSE IF value.cls = "list"
        THEN Strip(JoinStripped(EncodedItems(
                       [i \in 1..Len(value.items) |-> Decimal(i - 1)], value.items)))
        ELSE IF Callable(value)
        THEN Strip(encode_attribute_value(heap, key,
                       Invoke(heap, value, global_context, local_context),
                       concatenator, global_context, local_context))
        ELSE IF value.cls = "raise"
        THEN Error(value.name)
        ELSE IF value.cls = "bool"
        THEN IF value.value THEN Strip(key) ELSE <<>>
        ELSE LET string == Strip(Str(value))
             IN  IF string # <<>>
                 THEN Strip(key \o <<"=", "'">> \o escape_html_text(string) \o <<"'">>)
                 ELSE <<>>

\* the for loop of encode_tag_attributes, from the entry at index on
RECURSIVE encode_tag_attributes_loop(_, _, _, _, _, _, _, _)
encode_tag_attributes_loop(heap, data, index, prefix, concatenator, global_context, local_context, is_data_attribute) ==
    IF index > Len(data)
    THEN <<>>
    ELSE IF "-" \in Range(data[index].key)
    THEN <<Error("HTMLAttributeEncodingError")>>
    ELSE LET encoded    == encode_attribute_key(data[index].key)
             prefixed   == IF prefix # <<>>
                           THEN prefix \o concatenator \o encoded
                           ELSE encoded
             key_string == IF is_data_attribute
                           THEN <<"d", "a", "t", "a", "-">> \o prefixed
                           ELSE prefixed
             rest == encode_tag_attributes_loop(heap, data, index + 1, prefix,
                         concatenator, global_context, local_context, is_data_attribute)
         IN  Only({IF formatted_string # <<>> THEN <<formatted_string>> \o rest ELSE rest :
                   formatted_string \in
                       {Strip(encode_attribute_value(heap, key_string, data[index].value,
                            concatenator, global_context, local_context))}})

\* encode_tag_attributes
encode_tag_attributes(heap, data, prefix, concatenator, global_context, local_context, is_data_attribute) ==
    Only({IF HasError(encoded_attributes)
          THEN FirstError(encoded_attributes)
          ELSE Join(encoded_attributes) :
          encoded_attributes \in
              {encode_tag_attributes_loop(heap, data, 1, prefix, concatenator,
                   global_context, local_context, is_data_attribute)}})

\* output += indent + line for every line of string.splitlines(True), for
\* characters up to U+00FF; the text starts a line if at_line_start
IndentLines(string, indent, at_line_start) ==
    Only({LET boundaries == {Chr(n) : n \in {10, 11, 12, 28, 29, 30, 133}}
              ends_line(i) ==
                  \/ text[i] \in boundaries
                  \/ text[i] = "\r" /\ (i = Len(text) \/ text[i + 1] # "\n")
              starts_line(i) == IF i = 1 THEN at_line_start ELSE ends_line(i - 1)
          IN  Concat([i \in 1..Len(text) |->
                         (IF starts_line(i) THEN Spaces(indent) ELSE <<>>) \o <<text[i]>>]) :
          text \in {string}})

\* the index of the first "]" at or after i, or Len(string) + 1
RECURSIVE ClosingBracket(_, _)
ClosingBracket(string, i) ==
    IF i > Len(string) \/ string[i] = "]" THEN i ELSE ClosingBracket(string, i + 1)

\* str.format looks for the end of a field name from index i on: the index of
\* the "}", ":" or "!" that ends it, or 0 (ValueError) for a "{" and for the
\* end of the string; what is between "[" and the next "]" is part of the name
RECURSIVE FieldNameEnd(_, _)
FieldNameEnd(string, i) ==
    IF i > Len(string)
    THEN 0
    ELSE CASE string[i] = "{" -> 0
           [] string[i] = "[" -> FieldNameEnd(string, ClosingBracket(string, i + 1))
           [] string[i] \in {"}", ":", "!"} -> i
           [] OTHER -> FieldNameEnd(string, i + 1)

\* the index of the "}" that ends a format specification read from index i on
\* with count braces open, or 0 (ValueError)
RECURSIVE FormatSpecEnd(_, _, _)
FormatSpecEnd(string, i, count) ==
    IF i > Len(string)
    THEN 0
    ELSE IF string[i] = "{"
    THEN FormatSpecEnd(string, i + 1, count + 1)
    ELSE IF string[i] # "}"
    THEN FormatSpecEnd(string, i + 1, count)
    ELSE IF count = 1
    THEN i
    ELSE FormatSpecEnd(string, i + 1, count - 1)

\* the index where the format specification of the field starts whose name
\* ends at name_end (after the last character of the field when it has none),
\* or 0 (ValueError)
FormatSpecStart(string, name_end) ==
    IF string[name_end] = "}"
    THEN name_end
    ELSE IF string[name_end] = ":"
    THEN name_end + 1
    ELSE IF name_end + 1 > Len(string)
    THEN 0
    ELSE IF name_end + 2 > Len(string) \/ string[name_end + 2] = "}"
    THEN name_end + 2
    ELSE IF string[name_end + 2] = ":"
    THEN name_end + 3
    ELSE 0

\* the index of the "}" that ends the replacement field whose name starts at
\* index i, or 0 when str.format raises ValueError while it reads the field
ClosingBrace(string, i) ==
    LET name_end   == FieldNameEnd(string, i)
        spec_start == FormatSpecStart(string, name_end)
    IN  IF name_end = 0 \/ spec_start = 0
        THEN 0
        ELSE IF string[name_end] = "}"
        THEN name_end
        ELSE IF string[name_end] = "!" /\ spec_start = name_end + 2
        THEN IF spec_start > Len(string) THEN 0 ELSE spec_start
        ELSE FormatSpecEnd(string, spec_start, 1)

\* the value of a decimal digit
DigitValue(char) == (CHOOSE n \in 1..10 : DigitChars[n] = char) - 1

\* int(digits) of at most nine digits after the leading zeros; a larger index
\* is past the end of every list and string of the model
RECURSIVE DecimalValue(_)
DecimalValue(digits) ==
    IF digits = <<>>
    THEN 0
    ELSE IF Head(digits) = "0"
    THEN DecimalValue(Tail(digits))
    ELSE IF Len(digits) > 9
    THEN 1000000000
    ELSE IF Len(digits) = 1
    THEN DigitValue(digits[1])
    ELSE 10 * DecimalValue(SubSeq(digits, 1, Len(digits) - 1))
         + DigitValue(digits[Len(digits)])

\* sys.maxsize of a 64-bit build, PY_SSIZE_T_MAX
PY_SSIZE_T_MAX ==
    <<"9", "2", "2", "3", "3", "7", "2", "0", "3", "6", "8", "5", "4", "7", "7", "5", "8", "0",
      "7">>

\* str.format reads the number at the start of a part of a field name digit
\* by digit, up to the first character that is no digit, and raises
\* ValueError ("Too many decimal digits in format string") as soon as the
\* number read is above PY_SSIZE_T_MAX
TooManyDigits(chars) ==
    LET others == {i \in 1..Len(chars) : chars[i] \notin Digits}
        run    == IF others = {}
                  THEN Len(chars)
                  ELSE (CHOOSE i \in others : \A j \in others : i <= j) - 1
        zeros  == {i \in 1..run : \A j \in 1..i : chars[j] = "0"}
        digits == SubSeq(chars, Cardinality(zeros) + 1, run)
    IN  \/ Len(digits) > Len(PY_SSIZE_T_MAX)
        \/ /\ Len(digits) = Len(PY_SSIZE_T_MAX)
           /\ \E i \in 1..Len(digits) :
                  /\ \A j \in 1..(i - 1) : digits[j] = PY_SSIZE_T_MAX[j]
                  /\ DigitValue(digits[i]) > DigitValue(PY_SSIZE_T_MAX[i])

\* the characters as one string
RECURSIVE NameOf(_)
NameOf(chars) == IF chars = <<>> THEN "" ELSE Head(chars) \o NameOf(Tail(chars))

\* dir(object()): the names of the attributes every object has (CPython 3.11)
ObjectAttributes ==
    {"__class__", "__delattr__", "__dir__", "__doc__", "__eq__", "__format__", "__ge__",
     "__getattribute__", "__getstate__", "__gt__", "__hash__", "__init__", "__init_subclass__",
     "__le__", "__lt__", "__ne__", "__new__", "__reduce__", "__reduce_ex__", "__repr__",
     "__setattr__", "__sizeof__", "__str__", "__subclasshook__"}

\* the names of the attributes of a dict
DictAttributes ==
    ObjectAttributes \cup {"__class_getitem__", "__contains__", "__delitem__", "__getitem__",
     "__ior__", "__iter__", "__len__", "__or__", "__reversed__", "__ror__", "__setitem__",
     "clear", "copy", "fromkeys", "get", "items", "keys", "pop", "popitem", "setdefault",
     "update", "values"}

\* the names of the attributes of a str
StrAttributes ==
    ObjectAttributes \cup {"__add__", "__contains__", "__getitem__", "__getnewargs__",
     "__iter__", "__len__", "__mod__", "__mul__", "__rmod__", "__rmul__", "capitalize",
     "casefold", "center", "count", "encode", "endswith", "expandtabs", "find", "format",
     "format_map", "index", "isalnum", "isalpha", "isascii", "isdecimal", "isdigit",
     "isidentifier", "islower", "isnumeric", "isprintable", "isspace", "istitle", "isupper",
     "join", "ljust", "lower", "lstrip", "maketrans", "partition", "removeprefix",
     "removesuffix", "replace", "rfind", "rindex", "rjust", "rpartition", "rsplit", "rstrip",
     "split", "splitlines", "startswith", "strip", "swapcase", "title", "translate", "upper",
     "zfill"}

\* the names of the attributes of an int and a bool
IntAttributes ==
    ObjectAttributes \cup {"__abs__", "__add__", "__and__", "__bool__", "__ceil__",
     "__divmod__", "__float__", "__floor__", "__floordiv__", "__getnewargs__", "__index__",
     "__int__", "__invert__", "__lshift__", "__mod__", "__mul__", "__neg__", "__or__",
     "__pos__", "__pow__", "__radd__", "__rand__", "__rdivmod__", "__rfloordiv__",
     "__rlshift__", "__rmod__", "__rmul__", "__ror__", "__round__", "__rpow__", "__rrshift__",
     "__rshift__", "__rsub__", "__rtruediv__", "__rxor__", "__sub__", "__truediv__",
     "__trunc__", "__xor__", "as_integer_ratio", "bit_count", "bit_length", "conjugate",
     "denominator", "from_bytes", "imag", "numerator", "real", "to_bytes"}

\* the names of the attributes of a list
ListAttributes ==
    ObjectAttributes \cup {"__add__", "__class_getitem__", "__contains__", "__delitem__",
     "__getitem__", "__iadd__", "__imul__", "__iter__", "__len__", "__mul__", "__reversed__",
     "__rmul__", "__setitem__", "append", "clear", "copy", "count", "extend", "index",
     "insert", "pop", "remove", "reverse", "sort"}

\* the names of the attributes of None
NoneAttributes ==
    ObjectAttributes \cup {"__bool__"}

\* the names of the attributes of a function
FunctionAttributes ==
    ObjectAttributes \cup {"__annotations__", "__builtins__", "__call__", "__closure__",
     "__code__", "__defaults__", "__dict__", "__get__", "__globals__", "__kwdefaults__",
     "__module__", "__name__", "__qualname__"}

\* the names of the attributes of an HTMLElement
HTMLElementAttributes ==
    ObjectAttributes \cup {"__annotations__", "__call__", "__dict__", "__module__",
     "__weakref__", "attributes", "children", "copy", "data", "default_attributes",
     "default_data", "escape_content", "name", "render", "self_closing", "tag_name_override",
     "whitespace_sensitive"}

\* the names of the attributes of an element: what __init__ assigns and what
\* its class defines. Raw.__init__ assigns no children, attributes and data
ElementAttributes(cls) ==
    CASE cls = "Raw" ->
             (HTMLElementAttributes \ {"attributes", "children", "data"})
             \cup {"code", "format_content", "separator"}
      [] cls = "JSONData" -> HTMLElementAttributes \cup {"json_call_kwargs", "json_data"}
      [] cls \notin {"Raw", "JSONData"} -> HTMLElementAttributes

\* dir(obj)
AttributeNames(heap, obj) ==
    CASE obj.cls = "str" -> StrAttributes
      [] obj.cls \in {"int", "bool"} -> IntAttributes
      [] obj.cls = "list" -> ListAttributes
      [] obj.cls = "None" -> NoneAttributes
      [] Callable(obj) -> FunctionAttributes
      [] IsDict(heap, obj) -> DictAttributes
      [] IsElement(heap, obj) -> ElementAttributes(heap[obj.addr].cls)

\* an object the model says nothing more about: a method, a class, a
\* docstring
Opaque == [cls |-> "object"]

\* getattr(obj, name): AttributeError for a name that is no attribute; the
\* four numeric attributes of an int and the instance attributes of an
\* element, which the heap holds
getattr(heap, obj, name) ==
    LET attribute == NameOf(name)
        self      == heap[obj.addr]
    IN  IF attribute \notin AttributeNames(heap, obj)
        THEN Raise("AttributeError")
        ELSE IF obj.cls \in {"int", "bool"}
        THEN CASE attribute \in {"real", "numerator"} -> PyInt(IntOf(obj))
               [] attribute = "imag" -> PyInt(0)
               [] attribute = "denominator" -> PyInt(1)
               [] OTHER -> Opaque
        ELSE IF IsElement(heap, obj)
        THEN CASE attribute \in {"escape_content", "whitespace_sensitive", "format_content"} ->
                      Bool(self[attribute])
               [] attribute \in {"children", "code"} -> PyList(self[attribute])
               [] attribute \in {"attributes", "data"} -> Dict(self[attribute])
               [] attribute = "separator" -> Text(self.separator)
               [] attribute \in {"json_data", "json_call_kwargs"} -> self[attribute]
               [] OTHER -> Opaque
        ELSE Opaque

\* the value the rest of a field name leads to from obj: .name is
\* getattr(obj, name) and [key] is obj[key], with an int key when key is made
\* of digits. A missing key raises KeyError, which Raw.render turns into
\* HTMLContextKeyError. Each part is read when the parts before it have
\* been looked up
RECURSIVE FieldLookup(_, _, _)
FieldLookup(heap, obj, rest) ==
    IF rest = <<>>
    THEN obj
    ELSE IF Head(rest) = "."
    THEN LET stops    == {i \in 2..Len(rest) : rest[i] \in {".", "["}}
             name_end == IF stops = {}
                         THEN Len(rest)
                         ELSE (CHOOSE i \in stops : \A j \in stops : i <= j) - 1
             name     == SubSeq(rest, 2, name_end)
             found    == getattr(heap, obj, name)
         IN  IF name = <<>>
             THEN Raise("ValueError")
             ELSE IF found.cls = "raise"
             THEN found
             ELSE FieldLookup(heap, found, SubSeq(rest, name_end + 1, Len(rest)))
    ELSE IF Head(rest) # "["
    THEN Raise("ValueError")
    ELSE LET close == ClosingBracket(rest, 2)
             key   == SubSeq(rest, 2, close - 1)
             index == DecimalValue(key)
             found == IF Range(key) \subseteq Digits
                      THEN CASE IsDict(heap, obj) -> Raise("HTMLContextKeyError")
                             [] obj.cls = "list" ->
                                    IF index < Len(obj.items)
                                    THEN obj.items[index + 1]
                                    ELSE Raise("IndexError")
                             [] obj.cls = "str" ->
                                    IF index < Len(obj.value)
                                    THEN Text(<<obj.value[index + 1]>>)
                                    ELSE Raise("IndexError")
                             [] /\ obj.cls \notin {"list", "str", "object"}
                                /\ ~IsDict(heap, obj) -> Raise("TypeError")
                      ELSE CASE IsDict(heap, obj) ->
                                    DictGet(heap, obj, key, Raise("HTMLContextKeyError"))
                             [] obj.cls # "object" /\ ~IsDict(heap, obj) -> Raise("TypeError")
         IN  IF close > Len(rest) \/ key = <<>> \/ TooManyDigits(key)
             THEN Raise("ValueError")
             ELSE IF found.cls = "raise"
             THEN found
             ELSE FieldLookup(heap, found, SubSeq(rest, close + 1, Len(rest)))

\* the value a field name leads to: its first part, up to the first "." or
\* "[", is a keyword argument (ctx_global, ctx_local; any other name raises
\* KeyError) or, when empty or made of digits, a positional argument, of
\* which there is none
FieldValue(heap, field, global_context, local_context) ==
    LET ctx_global == <<"c", "t", "x", "_", "g", "l", "o", "b", "a", "l">>
        ctx_local  == <<"c", "t", "x", "_", "l", "o", "c", "a", "l">>
        stops      == {i \in 1..Len(field) : field[i] \in {".", "["}}
        name_end   == IF stops = {}
                      THEN Len(field)
                      ELSE (CHOOSE i \in stops : \A j \in stops : i <= j) - 1
        name       == SubSeq(field, 1, name_end)
        rest       == SubSeq(field, name_end + 1, Len(field))
    IN  IF TooManyDigits(name)
        THEN Raise("ValueError")
        ELSE IF Range(name) \subseteq Digits
        THEN Raise("IndexError")
        ELSE IF name = ctx_global
        THEN FieldLookup(heap, global_context, rest)
        ELSE IF name = ctx_local
        THEN FieldLookup(heap, local_context, rest)
        ELSE Raise("HTMLContextKeyError")

\* the string a replacement field is replaced by: the conversion is applied
\* to the value, then the format specification; for an empty format
\* specification and no conversion or !s, or any conversion of an int, a bool
\* and None, whose repr is their str
FieldString(value, conversion, format_spec) ==
    IF value.cls = "raise"
    THEN Error(value.name)
    ELSE IF conversion \notin {<<>>, <<"s">>, <<"r">>, <<"a">>}
    THEN Error("ValueError")
    ELSE CASE /\ format_spec = <<>>
              /\ value.cls # "object"
              /\ \/ conversion \in {<<>>, <<"s">>}
                 \/ value.cls \in {"int", "bool", "None"} -> Str(value)

\* string.format(ctx_global = global_context, ctx_local = local_context)
RECURSIVE str_format(_, _, _, _)
str_format(heap, string, global_context, local_context) ==
    IF string = <<>>
    THEN <<>>
    ELSE IF Head(string) \notin {"{", "}"}
    THEN LET braces == {i \in 1..Len(string) : string[i] \in {"{", "}"}}
             first  == IF braces = {}
                       THEN Len(string) + 1
                       ELSE CHOOSE i \in braces : \A j \in braces : i <= j
         IN  Cat(SubSeq(string, 1, first - 1),
                 str_format(heap, SubSeq(string, first, Len(string)), global_context,
                            local_context))
    ELSE IF StartsWith(string, 1, <<"{", "{">>) \/ StartsWith(string, 1, <<"}", "}">>)
    THEN Cat(<<Head(string)>>,
             str_format(heap, SubSeq(string, 3, Len(string)), global_context, local_context))
    ELSE IF Head(string) = "}"
    THEN Error("ValueError")
    ELSE LET close      == ClosingBrace(string, 2)
             name_end   == FieldNameEnd(string, 2)
             spec_start == FormatSpecStart(string, name_end)
             value      == FieldValue(heap, SubSeq(string, 2, name_end - 1), global_context,
                                      local_context)
             conversion == IF string[name_end] = "!"
                           THEN <<string[name_end + 1]>>
                           ELSE <<>>
         IN  IF close = 0
             THEN Error("ValueError")
             ELSE Cat(FieldString(value, conversion,
                                  SubSeq(string, spec_start, close - 1)),
                      str_format(heap, SubSeq(string, close + 1, Len(string)),
                                 global_context, local_context))

RECURSIVE render(_, _, _, _, _, _)
RECURSIVE JSONData_render(_, _, _, _, _, _)
RECURSIVE Raw_render(_, _, _, _, _, _)
RECURSIVE Page_render(_, _, _, _, _, _)
RECURSIVE item_render(_, _, _, _, _, _)
RECURSIVE _render_item(_, _, _, _, _, _)
RECURSIVE _render_list(_, _, _, _, _, _)
RECURSIVE _render_list_loop(_, _, _, _, _, _, _)

\* item.render(...): the render method of the element's class
item_render(heap, self, global_context, local_context, indent, whitespace_sensitive) ==
    CASE heap[self].cls = "JSONData" ->
             JSONData_render(heap, self, global_context, local_context, indent,
                             whitespace_sensitive)
      [] heap[self].cls = "Raw" ->
             Raw_render(heap, self, global_context, local_context, indent,
                        whitespace_sensitive)
      [] heap[self].cls = "Page" ->
             Page_render(heap, self, global_context, local_context, indent,
                         whitespace_sensitive)
      [] OTHER ->
             render(heap, self, global_context, local_context, indent,
                    whitespace_sensitive)

\* _render_item
_render_item(heap, item, global_context, local_context, indent, whitespace_sensitive) ==
    CASE item.cls = "ref" ->
             item_render(heap, item.addr, global_context, local_context, indent,
                         whitespace_sensitive)
      [] Callable(item) ->
             _render_item(heap, Invoke(heap, item, global_context, local_context),
                          global_context, local_context, indent, whitespace_sensitive)
      [] item.cls = "list" ->
             _render_list(heap, item.items, global_context, local_context, indent,
                          whitespace_sensitive)
      [] item.cls = "raise" -> Error(item.name)
      [] OTHER ->
             IF ~whitespace_sensitive
             THEN IndentLines(Str(item), indent, TRUE)
             ELSE Str(item)

\* the for loop of _render_list, from the item at index on
_render_list_loop(heap, item_list, index, global_context, local_context, indent, whitespace_sensitive) ==
    IF index > Len(item_list)
    THEN <<>>
    ELSE CatAll(<<IF index # 1 /\ ~whitespace_sensitive THEN <<"\n">> ELSE <<>>,
                  _render_item(heap, item_list[index], global_context, local_context,
                               indent, whitespace_sensitive),
                  _render_list_loop(heap, item_list, index + 1, global_context,
                                    local_context, indent, whitespace_sensitive)>>)

\* _render_list that passes whitespace_sensitive = False to the items
_render_list_turning_off(heap, item_list, global_context, local_context, indent, whitespace_sensitive) ==
    LET RECURSIVE From(_)
        From(index) ==
            IF index > Len(item_list)
            THEN <<>>
            ELSE CatAll(<<IF index # 1 /\ ~whitespace_sensitive THEN <<"\n">> ELSE <<>>,
                          _render_item(heap, item_list[index], global_context,
                                      local_context, indent, FALSE),
                          From(index + 1)>>)
    IN  From(1)

\* _render_list
_render_list(heap, item_list, global_context, local_context, indent, whitespace_sensitive) ==
    _render_list_loop(heap, item_list, 1, global_context, local_context, indent,
                      whitespace_sensitive)

\* HTMLElement.render
render(heap, self, global_context, local_context, indent, whitespace_sensitive) ==
    Only({IF SelfClosing(element.cls)
          THEN Cat(opening, <<"/", ">">>)
          ELSE CatAll(<<opening, <<">">>,
                        IF element.escape_content /\ ~IsError(content)
                        THEN escape_html_text(content)
                        ELSE content,
                        self_indent, <<"<", "/">>, Name(element.cls), <<">">>>>) :
          element \in {heap[self]},
          self_indent \in {IF ~whitespace_sensitive THEN Spaces(indent) ELSE <<>>},
          opening \in
              {CatAll(<<IF ~whitespace_sensitive THEN Spaces(indent) ELSE <<>>,
                        <<"<">>, Name(heap[self].cls),
                        \* self_attributes_string
                        IF heap[self].attributes # <<>>
                        THEN Cat(<<" ">>,
                                 encode_tag_attributes(heap, heap[self].attributes, <<>>,
                                     <<".">>, global_context, local_context, FALSE))
                        ELSE <<>>,
                        \* self_data_attributes_string
                        IF heap[self].data # <<>>
                        THEN Cat(<<" ">>,
                                 encode_tag_attributes(heap, heap[self].data, <<>>,
                                     <<".">>, global_context, local_context, TRUE))
                        ELSE <<>>>>)},
          content \in
              {IF heap[self].children # <<>>
               THEN CatAll(<<IF ~whitespace_sensitive THEN <<"\n">> ELSE <<>>,
                             _render_list(heap, heap[self].children, global_context,
                                 local_context, indent + INDENT,
                                 whitespace_sensitive \/ heap[self].whitespace_sensitive),
                             IF ~whitespace_sensitive THEN <<"\n">> ELSE <<>>>>)
               ELSE <<>>}})

\* JSONData.__init__, lines 554-567, and JSONData.__call__, lines 588-600:
\* what the check of the payload raises, "none" when it passes. An element is
\* callable. The TypeError of json.loads and json.dumps becomes the
\* structural error, their other errors are not caught
JSONData_check(heap, json_data, json_call_kwargs) ==
    IF Callable(json_data) \/ IsElement(heap, json_data)
    THEN "none"
    ELSE Only({IF checked = "TypeError" THEN "HTMLStructuralError" ELSE checked :
               checked \in {IF json_data.cls = "str"
                            THEN json_loads_raises(heap, json_data.value, json_call_kwargs)
                            ELSE json_dumps_raises(heap, json_data, json_call_kwargs)}})

\* json_data(global_context, local_context) for a json_data that is an
\* element, what the call raises: a JSONData element takes the contexts for
\* json_data and json_call_kwargs, a Raw element for two items of its code,
\* another element for two children, which a self-closing one does not take
ElementCalled(heap, json_data, global_context, local_context) ==
    IF ~IsElement(heap, json_data)
    THEN "none"
    ELSE IF heap[json_data.addr].cls = "JSONData"
    THEN JSONData_check(heap, global_context, local_context)
    ELSE IF heap[json_data.addr].cls # "Raw" /\ SelfClosing(heap[json_data.addr].cls)
    THEN "HTMLStructuralError"
    ELSE "none"

\* JSONData.render, lines 619-623: temp_data. An element is callable: called
\* is what calling it raises; the clone it returns is no more JSON
\* serializable than the element itself, which stands for it
JSONData_called(heap, json_data, called, global_context, local_context) ==
    IF IsElement(heap, json_data)
    THEN IF called = "none" THEN json_data ELSE Raise(called)
    ELSE IF Callable(json_data)
    THEN Invoke(heap, json_data, global_context, local_context)
    ELSE json_data

\* JSONData.render, lines 625-638: the text of temp_data, where checked is
\* what json.loads or json.dumps raises. The text json.dumps writes is
\* modelled for a call with no keyword argument but sort_keys
JSONData_text(heap, temp_data, checked, json_call_kwargs) ==
    IF temp_data.cls = "raise"
    THEN Error(temp_data.name)
    ELSE IF checked = "TypeError"
    THEN Error("HTMLStructuralError")
    ELSE IF checked # "none"
    THEN Error(checked)
    ELSE IF temp_data.cls = "str"
    THEN temp_data.value
    ELSE CASE \A i \in 1..Len(DictItems(heap, json_call_kwargs)) :
                  DictItems(heap, json_call_kwargs)[i].key
                      = <<"s", "o", "r", "t", "_", "k", "e", "y", "s">> ->
                  json_dumps_value(heap, temp_data, {},
                                   Truthy(heap, DictGet(heap, json_call_kwargs,
                                                        <<"s", "o", "r", "t", "_", "k", "e", "y", "s">>,
                                                        None)))

\* JSONData.render, lines 625-638: temp_data is checked
JSONData_checked(heap, temp_data, json_call_kwargs) ==
    JSONData_text(heap, temp_data,
                  IF temp_data.cls = "raise"
                  THEN "none"
                  ELSE IF temp_data.cls = "str"
                  THEN json_loads_raises(heap, temp_data.value, json_call_kwargs)
                  ELSE json_dumps_raises(heap, temp_data, json_call_kwargs),
                  json_call_kwargs)

\* JSONData.render, lines 619-638: the text of the payload
JSONData_temp_data(heap, self, global_context, local_context) ==
    JSONData_checked(heap,
                     JSONData_called(heap, heap[self].json_data,
                                     ElementCalled(heap, heap[self].json_data,
                                                   global_context, local_context),
                                     global_context, local_context),
                     heap[self].json_call_kwargs)

\* JSONData.render, line 640: self.children = [temp_data]
JSONData_assign(heap, self, temp_data) ==
    [heap EXCEPT ![self].children = <<Text(temp_data)>>]

\* JSONData.render
JSONData_render(heap, self, global_context, local_context, indent, whitespace_sensitive) ==
    Only({IF IsError(temp_data)
          THEN temp_data
          ELSE render(JSONData_assign(heap, self, temp_data), self, global_context,
                      local_context, indent, whitespace_sensitive) :
          temp_data \in {JSONData_temp_data(heap, self, global_context, local_context)}})

\* Raw.render, the loop over self.code, from the item at index on
RECURSIVE Raw_render_loop(_, _, _, _, _)
Raw_render_loop(heap, code, index, global_context, local_context) ==
    IF index > Len(code)
    THEN <<>>
    ELSE IF IsElement(heap, code[index])
    THEN Error("HTMLStructuralError")
    ELSE LET item == code[index]
             rest == Raw_render_loop(heap, code, index + 1, global_context,
                                     local_context)
         IN  IF ~Callable(item)
             THEN Cat(Str(item), rest)
             ELSE Only({IF temp_data.cls = "raise"
                        THEN Error(temp_data.name)
                        ELSE IF temp_data.cls # "str"
                        THEN Error("HTMLStructuralError")
                        ELSE Cat(temp_data.value, rest) :
                        temp_data \in {Invoke(heap, item, global_context, local_context)}})

\* Raw.render
Raw_render(heap, self, global_context, local_context, indent, whitespace_sensitive) ==
    LET Formatted(rendered_string) ==
            IF heap[self].format_content /\ ~IsError(rendered_string)
            THEN str_format(heap, rendered_string, global_context, local_context)
            ELSE rendered_string
        Escaped(formatted) ==
            IF heap[self].escape_content /\ ~IsError(formatted)
            THEN escape_html_text(formatted)
            ELSE formatted
    IN  Only({IF IsError(escaped)
              THEN escaped
              ELSE _render_item(heap, Text(escaped), global_context, local_context,
                                indent, whitespace_sensitive) :
              escaped \in {Escaped(Formatted(Raw_render_loop(heap, heap[self].code, 1,
                                                 global_context, local_context)))}})

\* Page.render
Page_render(heap, self, global_context, local_context, indent, whitespace_sensitive) ==
    Cat(<<"<", "!", "D", "O", "C", "T", "Y", "P", "E", " ", "h", "t", "m", "l", ">", "\n">>,
        render(heap, self, global_context, local_context, indent, whitespace_sensitive))

(***************************************************************************)
(* The heap of elements and nested dicts.                                  *)
(***************************************************************************)
MaxHeap == 7

HeapAddresses == 1..MaxHeap

Null == 0

EmptyHeap == [address \in HeapAddresses |-> Free]

EmptyContext == Dict(<<>>)

\* default_attributes and default_data of the class
DefaultAttributes(cls) ==
    IF cls = "tagSCRIPT"
    THEN <<Entry(<<"t", "y", "p", "e">>,
                 Text(<<"t", "e", "x", "t", "/", "j", "a", "v", "a", "s", "c", "r", "i", "p", "t">>))>>
    ELSE IF cls = "JSONData"
    THEN <<Entry(<<"t", "y", "p", "e">>,
                 Text(<<"a", "p", "p", "l", "i", "c", "a", "t", "i", "o", "n", "/", "j", "s", "o", "n">>))>>
    ELSE IF cls = "tagSTYLE"
    THEN <<Entry(<<"t", "y", "p", "e">>, Text(<<"t", "e", "x", "t", "/", "c", "s", "s">>))>>
    ELSE IF cls = "tagFORM"
    THEN <<Entry(<<"m", "e", "t", "h", "o", "d">>, Text(<<"P", "O", "S", "T">>))>>
    ELSE <<>>

DefaultData(cls) == <<>>

\* dict[key] = value: a present key keeps its position
DictSet(items, key, value) ==
    IF \E i \in 1..Len(items) : items[i].key = key
    THEN [i \in 1..Len(items) |->
             IF items[i].key = key THEN Entry(key, value) ELSE items[i]]
    ELSE Append(items, Entry(key, value))

\* mutant of DictMerge: a key of both dicts keeps the value of the first
DictMergeKeepingFirst(first, second) ==
    first \o SelectSeq(second, LAMBDA entry :
                           \A i \in 1..Len(first) : first[i].key # entry.key)

\* {**first, **second}
RECURSIVE DictMerge(_, _)
DictMerge(first, second) ==
    IF second = <<>>
    THEN first
    ELSE DictMerge(DictSet(first, Head(second).key, Head(second).value), Tail(second))

\* the objects a value refers to
RECURSIVE RefsOfValue(_)
RefsOfValue(value) ==
    IF value.cls = "ref"
    THEN {value.addr}
    ELSE IF value.cls = "list"
    THEN UNION {RefsOfValue(value.items[i]) : i \in 1..Len(value.items)}
    ELSE IF value.cls = "dict"
    THEN UNION {RefsOfValue(value.items[i].value) : i \in 1..Len(value.items)}
    ELSE {}

RefsOfEntries(items) == UNION {RefsOfValue(items[i].value) : i \in 1..Len(items)}

\* the objects an object refers to
RefsOfObject(object) ==
    IF object.cls = "free"
    THEN {}
    ELSE IF object.cls = "dict"
    THEN RefsOfEntries(object.items)
    ELSE IF object.cls = "Raw"
    THEN UNION {RefsOfValue(object.code[i]) : i \in 1..Len(object.code)}
    ELSE UNION {RefsOfValue(object.children[i]) : i \in 1..Len(object.children)}
         \cup RefsOfEntries(object.attributes)
         \cup RefsOfEntries(object.data)
         \cup (IF object.cls = "JSONData"
               THEN RefsOfValue(object.json_data) \cup RefsOfValue(object.json_call_kwargs)
               ELSE {})

\* the objects reachable from the objects found
RECURSIVE Reachable(_, _)
Reachable(heap, found) ==
    LET next == found \cup UNION {RefsOfObject(heap[address]) : address \in found}
    IN  IF next = found THEN found ELSE Reachable(heap, next)

\* the heap without the objects nothing refers to any more
Collect(heap, roots) ==
    [address \in HeapAddresses |->
        IF address \in Reachable(heap, roots \ {Null}) THEN heap[address] ELSE Free]

FreeAddresses(heap) == {address \in HeapAddresses : heap[address] = Free}

Min(set) == CHOOSE least \in set : \A other \in set : least <= other

RECURSIVE Ascending(_)
Ascending(set) ==
    IF set = {} THEN <<>> ELSE <<Min(set)>> \o Ascending(set \ {Min(set)})

\* a value of the copy: references go to the copies
RECURSIVE Moved(_, _)
Moved(value, new_address) ==
    IF value.cls = "ref"
    THEN Ref(new_address[value.addr])
    ELSE IF value.cls = "list"
    THEN PyList([i \in 1..Len(value.items) |-> Moved(value.items[i], new_address)])
    ELSE IF value.cls = "dict"
    THEN Dict([i \in 1..Len(value.items) |->
                  Entry(value.items[i].key, Moved(value.items[i].value, new_address))])
    ELSE value

MovedEntries(items, new_address) ==
    [i \in 1..Len(items) |-> Entry(items[i].key, Moved(items[i].value, new_address))]

MovedObject(object, new_address) ==
    IF object.cls = "dict"
    THEN Dict(MovedEntries(object.items, new_address))
    ELSE IF object.cls = "Raw"
    THEN [object EXCEPT
             !.code = [i \in 1..Len(object.code) |-> Moved(object.code[i], new_address)]]
    ELSE IF object.cls = "JSONData"
    THEN [object EXCEPT
             !.json_data = Moved(object.json_data, new_address),
             !.json_call_kwargs = Moved(object.json_call_kwargs, new_address),
             !.children = [i \in 1..Len(object.children) |->
                              Moved(object.children[i], new_address)],
             !.attributes = MovedEntries(object.attributes, new_address),
             !.data = MovedEntries(object.data, new_address)]
    ELSE [object EXCEPT
             !.children = [i \in 1..Len(object.children) |->
                              Moved(object.children[i], new_address)],
             !.attributes = MovedEntries(object.attributes, new_address),
             !.data = MovedEntries(object.data, new_address)]

\* copy.deepcopy: every object reachable from self is copied once
deepcopy(heap, self) ==
    LET old   == Ascending(Reachable(heap, {self}))
        fresh == Ascending(FreeAddresses(heap))
        new_address == [address \in Range(old) |->
                           fresh[CHOOSE i \in 1..Len(old) : old[i] = address]]
    IN  [heap  |-> [address \in HeapAddresses |->
                       IF \E i \in 1..Len(old) : fresh[i] = address
                       THEN MovedObject(
                                heap[old[CHOOSE i \in 1..Len(old) : fresh[i] = address]],
                                new_address)
                       ELSE heap[address]],
         value |-> new_address[self]]

HasRoomToCopy(heap, self) ==
    Cardinality(Reachable(heap, {self})) <= Cardinality(FreeAddresses(heap))

\* HTMLElement.copy
copy(heap, self) == deepcopy(heap, self)

\* a new dict object
NewDict(heap, items) ==
    LET address == Min(FreeAddresses(heap))
    IN  [heap |-> [heap EXCEPT ![address] = Dict(items)], value |-> address]

\* HTMLElement.__init__ of the class cls
HTMLElement_init(heap, cls, args, children, escape_content, whitespace_sensitive, attrs, data) ==
    IF SelfClosing(cls) /\ Len(args \o children) # 0
    THEN [heap |-> heap, value |-> Null, raised |-> "HTMLStructuralError"]
    ELSE LET self == Min(FreeAddresses(heap))
         IN  [heap |-> [heap EXCEPT ![self] =
                           [cls |-> cls,
                            escape_content |-> escape_content,
                            whitespace_sensitive |-> whitespace_sensitive,
                            children |-> args \o children,
                            attributes |-> DictMerge(DefaultAttributes(cls), attrs),
                            data |-> DictMerge(DefaultData(cls), data)]],
              value |-> self,
              raised |-> "none"]

\* HTMLElement.__call__ without the check of lines 419-421
HTMLElement_call_unchecked(heap, self, args, children, escape_content, whitespace_sensitive, attrs, data) ==
    LET copied == copy(heap, self)
        clone  == copied.value
    IN  [heap |-> [copied.heap EXCEPT ![clone] =
                      [@ EXCEPT !.escape_content = escape_content,
                                !.whitespace_sensitive = whitespace_sensitive,
                                !.children = args \o children,
                                !.attributes = DictMerge(<<>>, attrs),
                                !.data = DictMerge(<<>>, data)]],
         value |-> clone,
         raised |-> "none"]

\* HTMLElement.__call__
HTMLElement_call(heap, self, args, children, escape_content, whitespace_sensitive, attrs, data) ==
    LET copied == copy(heap, self)
        clone  == copied.value
    IN  IF SelfClosing(copied.heap[clone].cls) /\ args \o children # <<>>
        THEN [heap |-> copied.heap, value |-> Null, raised |-> "HTMLStructuralError"]
        ELSE [heap |-> [copied.heap EXCEPT ![clone] =
                           [@ EXCEPT !.escape_content = escape_content,
                                     !.whitespace_sensitive = whitespace_sensitive,
                                     !.children = args \o children,
                                     !.attributes = DictMerge(<<>>, attrs),
                                     !.data = DictMerge(<<>>, data)]],
              value |-> clone,
              raised |-> "none"]

\* JSONData.__init__
JSONData_init(heap, json_data, json_call_kwargs, attrs, data) ==
    LET built == HTMLElement_init(heap, "JSONData", <<>>, <<>>, FALSE, FALSE, attrs, data)
    IN  Only({IF checked # "none"
              THEN [heap |-> heap, value |-> Null, raised |-> checked]
              ELSE [heap |-> [built.heap EXCEPT ![built.value] =
                                 [cls |-> "JSONData",
                                  json_data |-> json_data,
                                  json_call_kwargs |-> json_call_kwargs,
                                  escape_content |-> FALSE,
                                  whitespace_sensitive |-> FALSE,
                                  children |-> <<>>,
                                  attributes |-> built.heap[built.value].attributes,
                                  data |-> built.heap[built.value].data]],
                    value |-> built.value,
                    raised |-> "none"] :
              checked \in {JSONData_check(heap, json_data, json_call_kwargs)}})

\* JSONData.__call__
JSONData_call(heap, self, json_data, json_call_kwargs, attrs, data) ==
    Only({IF checked # "none"
          THEN [heap |-> copied.heap, value |-> Null, raised |-> checked]
          ELSE [heap |-> [copied.heap EXCEPT ![copied.value] =
                             [@ EXCEPT !.json_data = json_data,
                                       !.json_call_kwargs = json_call_kwargs,
                                       !.attributes = DictMerge(<<>>, attrs),
                                       !.data = DictMerge(<<>>, data)]],
                value |-> copied.value,
                raised |-> "none"] :
          copied \in {copy(heap, self)},
          checked \in {JSONData_check(heap, json_data, json_call_kwargs)}})

\* Raw.__init__
Raw_init(heap, args, text, separator, escape_content, whitespace_sensitive, format_content) ==
    LET self == Min(FreeAddresses(heap))
    IN  [heap |-> [heap EXCEPT ![self] =
                      [cls |-> "Raw",
                       code |-> args \o text,
                       separator |-> separator,
                       escape_content |-> escape_content,
                       whitespace_sensitive |-> whitespace_sensitive,
                       format_content |-> format_content]],
         value |-> self,
         raised |-> "none"]

\* Raw.__call__
Raw_call(heap, self, args, text, separator, escape_content, whitespace_sensitive, format_content) ==
    LET copied == copy(heap, self)
        clone  == copied.value
    IN  [heap |-> [copied.heap EXCEPT ![clone] =
                      [@ EXCEPT !.code = args \o text,
                                !.separator = separator,
                                !.escape_content = escape_content,
                                !.whitespace_sensitive = whitespace_sensitive,
                                !.format_content = format_content]],
         value |-> clone,
         raised |-> "none"]

(***************************************************************************)
(* The values the operations are called with.                              *)
(***************************************************************************)
ResourcePaths == {"/f.woff", "/g.png"}

ContentTypes == {"font", "image"}

ResourceObjs ==
    {Resource(PyStr(path), PyStr(content_type), None) :
        path \in ResourcePaths, content_type \in ContentTypes}

\* preload_resources of the requirements: one resource, or two resources of
\* which the first has the path of the one-resource list
PreloadLists ==
    {PyList(<<Resource(PyStr("/f.woff"), PyStr("font"), None)>>),
     PyList(<<Resource(PyStr("/f.woff"), PyStr("image"), None),
              Resource(PyStr("/g.png"), PyStr("image"), None)>>)}

Priorities == {10, 90}

\* the declarations of the script /a.js, and one script with another path
\* that has the default priority and preload_resources
ScriptObjs ==
    {ScriptRequirement(PyStr("a"), PyStr("/a.js"), PyInt(priority),
                       ScriptLoading("ASYNC_DEFER"), preload) :
        priority \in Priorities, preload \in PreloadLists}
    \cup {ScriptRequirement(PyStr("b"), PyStr("/b.js"), PyInt(50), ScriptLoading("PRELOAD"),
                            PyList(<<>>))}

StyleObjs ==
    {StyleRequirement(PyStr("a"), PyStr("/a.css"), PyInt(priority), preload) :
        priority \in Priorities, preload \in PreloadLists}
    \cup {StyleRequirement(PyStr("b"), PyStr("/b.css"), PyInt(50), PyList(<<>>))}

\* the resources passed to add_resource
AddedResources == {resource \in ResourceObjs : resource.path = "/f.woff"}

\* values of a wrong type for add_script, add_style and add_resource
NotScripts ==
    {PyStr("/a.js"), StyleRequirement(PyStr("a"), PyStr("/a.js"), PyInt(90), PyList(<<>>))}

NotStyles ==
    {PyStr("/a.css"),
     ScriptRequirement(PyStr("a"), PyStr("/a.css"), PyInt(90), ScriptLoading("ASYNC_DEFER"),
                       PyList(<<>>))}

NotResources ==
    {PyStr("/f.woff"),
     StyleRequirement(PyStr("f"), PyStr("/f.woff"), PyInt(90), PyList(<<>>))}

\* the lists of at most MaxList items of a set
ListsOf(items) ==
    {PyList(list) : list \in UNION {[1..n -> items] : n \in 0..MaxList}}

\* the items of the lists passed to the add_*_list operations
ScriptListItems ==
    {script \in ScriptObjs : script.priority # 10} \cup {PyStr("/a.js")}

StyleListItems ==
    {style \in StyleObjs : style.priority = 50} \cup {PyStr("/a.css")}

ResourceListItems == AddedResources \cup {PyStr("/f.woff")}

(***************************************************************************)
(* State.                                                                  *)
(***************************************************************************)
VARIABLES
    \* the PageResourceData instances created so far: for each, the address of
    \* the three set objects its attributes refer to
    pages,
    \* the set objects: address -> [resource_preload, style_requirements,
    \* script_requirements]
    sets,
    \* history: address -> the add_script / add_style / add_resource calls that
    \* returned normally on an instance referring to the sets at that address
    calls,
    \* outcome of the last operation: "none" or the exception raised
    raised,
    \* the elements and nested dicts
    heap,
    \* the address of the template element, and of the clone its last call
    \* returned (Null when there is none)
    template,
    clone,
    \* history: the template's state and renderings when it was built
    original,
    \* history: an object the template reaches was changed through the clone
    shared_changed,
    \* history: the number of calls and changes made
    steps,
    \* the arguments of the operation under way, and what it returned
    request,
    response,
    \* the render calls under way on the template: for each, its contexts, its
    \* position in JSONData.render and what it returned
    threads

tree == <<heap, template, clone, original, shared_changed, steps>>

io == <<request, response, threads>>

vars == <<pages, sets, calls, raised, heap, template, clone, original,
          shared_changed, steps, request, response, threads>>

\* no operation of the element tree is under way
NoIO ==
    /\ request = <<>>
    /\ response = <<>>
    /\ threads = <<>>

\* no element has been built
NoTree ==
    /\ heap = EmptyHeap
    /\ template = Null
    /\ clone = Null
    /\ original = <<>>
    /\ shared_changed = FALSE
    /\ steps = 0

\* the address of the three sets created once, when the def statement of
\* PageResourceData.__init__ evaluates its default arguments
DefaultSets == 0

Addresses == 0..MaxPages

EmptySets ==
    [resource_preload |-> {}, style_requirements |-> {}, script_requirements |-> {}]

Call(op, arg, overwrite) == [op |-> op, arg |-> arg, overwrite |-> overwrite]

RECURSIVE SumLen(_, _)
SumLen(logs, addresses) ==
    IF addresses = {}
    THEN 0
    ELSE LET address == CHOOSE a \in addresses : TRUE
         IN  Len(logs[address]) + SumLen(logs, addresses \ {address})

TotalCalls == SumLen(calls, Addresses)

\* the single calls a list operation makes
RECURSIVE CallsOf(_, _, _)
CallsOf(op, items, overwrite) ==
    IF items = <<>>
    THEN <<>>
    ELSE <<Call(op, Head(items), overwrite)>> \o CallsOf(op, Tail(items), overwrite)

\* the effect of an operation's outcome on the state
Apply(page, result, made) ==
    /\ sets' = [sets EXCEPT ![pages[page]] = result.self]
    /\ raised' = result.raised
    /\ calls' = IF result.raised = "none"
                THEN [calls EXCEPT ![pages[page]] = @ \o made]
                ELSE calls
    /\ UNCHANGED <<pages, tree, io>>

NumberOfCalls(list) == IF IsInstance(list, "list") THEN Len(list.items) ELSE 1

(***************************************************************************)
(* Actions.                                                                *)
(***************************************************************************)
\* PageResourceData(): the attributes refer to the default arguments' sets
NewPage ==
    /\ Len(pages) < MaxPages
    /\ pages' = Append(pages, DefaultSets)
    /\ raised' = "none"
    /\ UNCHANGED <<sets, calls, tree, io>>

\* PageResourceData(set(), set(), set())
NewPageWith ==
    /\ Len(pages) < MaxPages
    /\ pages' = Append(pages, Len(pages) + 1)
    /\ raised' = "none"
    /\ UNCHANGED <<sets, calls, tree, io>>

AddScript(page, script_requirement) ==
    /\ page \in 1..Len(pages)
    /\ TotalCalls < MaxCalls
    /\ Apply(page, add_script(sets[pages[page]], script_requirement),
             <<Call("add_script", script_requirement, FALSE)>>)

AddScriptList(page, script_requirement_list) ==
    /\ page \in 1..Len(pages)
    /\ TotalCalls + NumberOfCalls(script_requirement_list) <= MaxCalls
    /\ Apply(page, add_script_list(sets[pages[page]], script_requirement_list),
             CallsOf("add_script", script_requirement_list.items, FALSE))

AddStyle(page, style_requirement) ==
    /\ page \in 1..Len(pages)
    /\ TotalCalls < MaxCalls
    /\ Apply(page, add_style(sets[pages[page]], style_requirement),
             <<Call("add_style", style_requirement, FALSE)>>)

AddStyleList(page, style_requirement_list) ==
    /\ page \in 1..Len(pages)
    /\ TotalCalls + NumberOfCalls(style_requirement_list) <= MaxCalls
    /\ Apply(page, add_style_list(sets[pages[page]], style_requirement_list),
             CallsOf("add_style", style_requirement_list.items, FALSE))

AddResource(page, new_resource, overwrite) ==
    /\ page \in 1..Len(pages)
    /\ TotalCalls < MaxCalls
    /\ Apply(page, add_resource(sets[pages[page]], new_resource, overwrite),
             <<Call("add_resource", new_resource, overwrite)>>)

AddResourceList(page, resource_list, overwrite) ==
    /\ page \in 1..Len(pages)
    /\ TotalCalls + NumberOfCalls(resource_list) <= MaxCalls
    /\ Apply(page, add_resource_list(sets[pages[page]], resource_list, overwrite),
             CallsOf("add_resource", resource_list.items, overwrite))

(***************************************************************************)
(* Spec: one PageResourceData, created without arguments.                  *)
(***************************************************************************)
Init ==
    /\ pages = <<DefaultSets>>
    /\ sets = [address \in Addresses |-> EmptySets]
    /\ calls = [address \in Addresses |-> <<>>]
    /\ raised = "none"
    /\ NoTree
    /\ NoIO

Next ==
    \/ \E script \in ScriptObjs : AddScript(1, script)
    \/ \E style \in StyleObjs : AddStyle(1, style)
    \/ \E resource \in AddedResources, overwrite \in BOOLEAN :
           AddResource(1, resource, overwrite)

Spec == Init /\ [][Next]_vars

(***************************************************************************)
(* SpecLists: one PageResourceData, the list operations and values of the  *)
(* wrong type.                                                             *)
(***************************************************************************)
NextLists ==
    \/ \E script \in ScriptListItems \cup NotScripts : AddScript(1, script)
    \/ \E list \in ListsOf(ScriptListItems) \cup {PyStr("/a.js")} :
           AddScriptList(1, list)
    \/ \E style \in StyleListItems \cup NotStyles : AddStyle(1, style)
    \/ \E list \in ListsOf(StyleListItems) \cup {PyStr("/a.css")} :
           AddStyleList(1, list)
    \/ \E resource \in ResourceListItems \cup NotResources, overwrite \in BOOLEAN :
           AddResource(1, resource, overwrite)
    \/ \E list \in ListsOf(ResourceListItems) \cup {PyStr("/f.woff")},
          overwrite \in BOOLEAN : AddResourceList(1, list, overwrite)

SpecLists == Init /\ [][NextLists]_vars

(***************************************************************************)
(* SpecPages: several PageResourceData instances.                          *)
(***************************************************************************)
InitPages ==
    /\ pages = <<>>
    /\ sets = [address \in Addresses |-> EmptySets]
    /\ calls = [address \in Addresses |-> <<>>]
    /\ raised = "none"
    /\ NoTree
    /\ NoIO

NextPages ==
    \/ NewPage
    \/ NewPageWith
    \/ \E page \in 1..MaxPages, script \in ScriptListItems \ {PyStr("/a.js")} :
           AddScript(page, script)
    \/ \E page \in 1..MaxPages, style \in StyleListItems \ {PyStr("/a.css")} :
           AddStyle(page, style)
    \/ \E page \in 1..MaxPages, resource \in AddedResources :
           AddResource(page, resource, TRUE)

SpecPages == InitPages /\ [][NextPages]_vars

(***************************************************************************)
(* SpecClone: one template element, the clones its calls return and the    *)
(* changes made to the clone afterwards.                                   *)
(***************************************************************************)
MaxSteps == 3

Chars(string) ==
    CASE string = "x" -> <<"x">>
      [] string = "y" -> <<"y">>
      [] string = "z" -> <<"z">>
      [] string = "m" -> <<"m">>
      [] string = "a" -> <<"a">>
      [] string = "n" -> <<"n">>
      [] string = "id" -> <<"i", "d">>
      [] string = "red" -> <<"r", "e", "d">>
      [] string = "class" -> <<"c", "l", "a", "s", "s">>
      [] string = "style" -> <<"s", "t", "y", "l", "e">>
      [] string = "color" -> <<"c", "o", "l", "o", "r">>
      [] string = "<b>&" -> <<"<", "b", ">", "&">>

\* tagDIV(tagSPAN("x"), attrs = {"class": "a", "style": {"color": "red"}},
\*        data = {"id": "n"})
NestedTemplate ==
    LET span  == HTMLElement_init(EmptyHeap, "tagSPAN", <<Text(Chars("x"))>>, <<>>,
                                  FALSE, FALSE, <<>>, <<>>)
        style == NewDict(span.heap, <<Entry(Chars("color"), Text(Chars("red")))>>)
    IN  HTMLElement_init(style.heap, "tagDIV", <<Ref(span.value)>>, <<>>, FALSE, FALSE,
                         <<Entry(Chars("class"), Text(Chars("a"))),
                           Entry(Chars("style"), Ref(style.value))>>,
                         <<Entry(Chars("id"), Text(Chars("n")))>>)

\* tagBR(attrs = {"class": "a"})
SelfClosingTemplate ==
    HTMLElement_init(EmptyHeap, "tagBR", <<>>, <<>>, FALSE, FALSE,
                     <<Entry(Chars("class"), Text(Chars("a")))>>, <<>>)

\* tagSPAN("<b>&", "x", escape_content = True, whitespace_sensitive = True)
EscapingTemplate ==
    HTMLElement_init(EmptyHeap, "tagSPAN", <<Text(Chars("<b>&")), Text(Chars("x"))>>,
                     <<>>, TRUE, TRUE, <<>>, <<>>)

Templates == {NestedTemplate, SelfClosingTemplate, EscapingTemplate}

\* what render returns for the element, for each way of calling it
Rendering(h, element) ==
    [indent \in {0, INDENT}, whitespace_sensitive \in BOOLEAN |->
        render(h, element, EmptyContext, EmptyContext, indent, whitespace_sensitive)]

\* the override arguments of a call: new values, or what the template holds
PositionalArguments == {<<>>, <<Text(Chars("y"))>>, heap[template].children}

ChildrenArguments == {<<>>, <<Text(Chars("z"))>>}

AttrsArguments ==
    {<<>>, <<Entry(Chars("id"), Text(Chars("y")))>>, heap[template].attributes}

DataArguments == {<<>>, heap[template].data}

\* escape_content and whitespace_sensitive
FlagArguments == {<<FALSE, FALSE>>, <<TRUE, FALSE>>, <<FALSE, TRUE>>}

InitClone ==
    /\ pages = <<>>
    /\ sets = [address \in Addresses |-> EmptySets]
    /\ calls = [address \in Addresses |-> <<>>]
    /\ raised = "none"
    /\ \E built \in Templates :
           /\ heap = built.heap
           /\ template = built.value
           /\ original = [object   |-> built.heap[built.value],
                          rendered |-> Rendering(built.heap, built.value)]
    /\ clone = Null
    /\ shared_changed = FALSE
    /\ steps = 0
    /\ NoIO

\* clone = template(*args, children = ..., ...)
CallTemplate(args, children, escape_content, whitespace_sensitive, attrs, data) ==
    /\ steps < MaxSteps
    /\ HasRoomToCopy(Collect(heap, {template}), template)
    /\ LET result == HTMLElement_call(Collect(heap, {template}), template, args,
                                      children, escape_content, whitespace_sensitive,
                                      attrs, data)
       IN  /\ heap' = Collect(result.heap, {template, result.value})
           /\ clone' = result.value
           /\ raised' = result.raised
    /\ steps' = steps + 1
    /\ UNCHANGED <<pages, sets, calls, template, original, shared_changed, io>>

\* a change of the object at target, reached through the clone
Change(target, changed) ==
    /\ steps < MaxSteps
    /\ clone # Null
    /\ heap' = [heap EXCEPT ![target] = changed]
    /\ shared_changed' = (shared_changed \/ target \in Reachable(heap, {template}))
    /\ raised' = "none"
    /\ steps' = steps + 1
    /\ UNCHANGED <<pages, sets, calls, template, clone, original, io>>

\* clone.children.append("m")
AppendChild ==
    /\ clone # Null
    /\ Change(clone, [heap[clone] EXCEPT !.children = Append(@, Text(Chars("m")))])

\* clone.attributes["class"] = "m"
SetAttribute ==
    /\ clone # Null
    /\ Change(clone, [heap[clone] EXCEPT
                         !.attributes = DictSet(@, Chars("class"), Text(Chars("m")))])

\* clone.data["id"] = "m"
SetData ==
    /\ clone # Null
    /\ Change(clone, [heap[clone] EXCEPT
                         !.data = DictSet(@, Chars("id"), Text(Chars("m")))])

\* clone.escape_content = True
SetFlag ==
    /\ clone # Null
    /\ ~heap[clone].escape_content
    /\ Change(clone, [heap[clone] EXCEPT !.escape_content = TRUE])

\* clone.children[index].children.append("m")
AppendToChild(index) ==
    /\ clone # Null
    /\ index \in 1..Len(heap[clone].children)
    /\ heap[clone].children[index].cls = "ref"
    /\ LET child == heap[clone].children[index].addr
       IN  Change(child, [heap[child] EXCEPT !.children = Append(@, Text(Chars("m")))])

\* clone.children[index].attributes["class"] = "m"
SetAttributeOfChild(index) ==
    /\ clone # Null
    /\ index \in 1..Len(heap[clone].children)
    /\ heap[clone].children[index].cls = "ref"
    /\ LET child == heap[clone].children[index].addr
       IN  Change(child, [heap[child] EXCEPT
                             !.attributes = DictSet(@, Chars("class"), Text(Chars("m")))])

\* clone.attributes[key]["color"] = "m", for the index-th key
SetNestedAttribute(index) ==
    /\ clone # Null
    /\ index \in 1..Len(heap[clone].attributes)
    /\ heap[clone].attributes[index].value.cls = "ref"
    /\ LET nested == heap[clone].attributes[index].value.addr
       IN  Change(nested, Dict(DictSet(heap[nested].items, Chars("color"),
                                       Text(Chars("m")))))

NextClone ==
    \/ \E args \in PositionalArguments, children \in ChildrenArguments,
          flags \in FlagArguments, attrs \in AttrsArguments, data \in DataArguments :
           CallTemplate(args, children, flags[1], flags[2], attrs, data)
    \/ AppendChild
    \/ SetAttribute
    \/ SetData
    \/ SetFlag
    \/ \E index \in 1..MaxSteps : AppendToChild(index)
    \/ \E index \in 1..MaxSteps : SetAttributeOfChild(index)
    \/ \E index \in 1..MaxSteps : SetNestedAttribute(index)

SpecClone == InitClone /\ [][NextClone]_vars

(***************************************************************************)
(* What the history says.                                                  *)
(***************************************************************************)
Indices(address) == 1..Len(calls[address])

\* the objects passed to the calls of one operation
Args(address, op) ==
    {calls[address][i].arg : i \in {k \in Indices(address) : calls[address][k].op = op}}

Items(list) == {list.items[i] : i \in 1..Len(list.items)}

\* the resources a call declares
Declares(call) ==
    IF call.op = "add_resource" THEN {call.arg} ELSE Items(call.arg.preload_resources)

DeclaredResources(address) ==
    UNION {Declares(calls[address][i]) : i \in Indices(address)}

PathsOf(objs) == {obj.path : obj \in objs}

RequirementSet(address, op) ==
    IF op = "add_script"
    THEN sets[address].script_requirements
    ELSE sets[address].style_requirements

RequirementOps == {"add_script", "add_style"}

(***************************************************************************)
(* C1: after any sequence of add_script (add_style) calls the requirement  *)
(* stored for a path has the maximum priority among all the requirements   *)
(* with that path added so far.                                            *)
(***************************************************************************)
C1_StoredHasMaxPriority ==
    \A address \in Addresses, op \in RequirementOps :
        \A stored \in RequirementSet(address, op), added \in Args(address, op) :
            added.path = stored.path => stored.priority >= added.priority

(***************************************************************************)
(* C2: script_requirements and style_requirements each hold exactly one    *)
(* requirement for every path that was added to the set and none for any   *)
(* other path; the size of the set is the number of distinct paths added.  *)
(***************************************************************************)
C2_OnePerPath ==
    \A address \in Addresses, op \in RequirementOps :
        LET stored == RequirementSet(address, op)
            paths  == PathsOf(Args(address, op))
        IN  /\ \A path \in paths :
                   Cardinality({member \in stored : member.path = path}) = 1
            /\ PathsOf(stored) \subseteq paths
            /\ Cardinality(stored) = Cardinality(paths)

\* two different declarations of one path were added, and another path
C2_Witness ==
    \E op \in RequirementOps :
        /\ \E first, second \in Args(DefaultSets, op) :
               first # second /\ first.path = second.path
        /\ Cardinality(PathsOf(Args(DefaultSets, op))) = 2
        /\ Cardinality(RequirementSet(DefaultSets, op)) = 2

(***************************************************************************)
(* C4: the paths of resource_preload are the union of the resource paths   *)
(* declared by every requirement passed to add_script or add_style         *)
(* (winner, loser or tie) and of the resources passed to add_resource.     *)
(***************************************************************************)
C4_ResourcePathsAreUnion ==
    \A address \in Addresses :
        PathsOf(sets[address].resource_preload) = PathsOf(DeclaredResources(address))

\* a declaration that lost or tied brought a resource path nothing before it
\* had declared
C4_Witness ==
    \E i, j \in Indices(DefaultSets) :
        LET first  == calls[DefaultSets][i]
            second == calls[DefaultSets][j]
        IN  /\ i < j
            /\ first.op \in RequirementOps /\ second.op = first.op
            /\ first.arg.path = second.arg.path
            /\ second.arg.priority <= first.arg.priority
            /\ \E resource \in Declares(second) :
                   /\ \A k \in 1..(j - 1) :
                          resource.path \notin PathsOf(Declares(calls[DefaultSets][k]))
                   /\ resource.path \in PathsOf(sets[DefaultSets].resource_preload)

(***************************************************************************)
(* C5: a requirement whose path is stored and whose priority is lower than *)
(* or equal to the stored one's leaves the stored requirement unchanged;   *)
(* consequently, among the declarations of one path with equal maximal     *)
(* priority, the first one added is the one kept.                          *)
(***************************************************************************)
\* the declarations of a path, in the order of the calls
DeclarationIndices(address, op, path) ==
    {i \in Indices(address) :
        calls[address][i].op = op /\ calls[address][i].arg.path = path}

\* the first declaration of a path among those of maximal priority
FirstOfMaximalPriority(address, op, path) ==
    LET declared == DeclarationIndices(address, op, path)
        maximal  == {i \in declared :
                        \A j \in declared : calls[address][j].arg.priority
                                            <= calls[address][i].arg.priority}
    IN  calls[address][CHOOSE i \in maximal : \A j \in maximal : i <= j].arg

C5_FirstOfMaximalPriorityKept ==
    \A address \in Addresses, op \in RequirementOps :
        \A stored \in RequirementSet(address, op) :
            stored = FirstOfMaximalPriority(address, op, stored.path)

\* the first sentence of C5 alone, as a property of every step: a call with
\* a requirement that does not outrank the stored one of its path leaves the
\* requirement set as it is
C5_LosingCallLeavesStored ==
    [][\A address \in Addresses :
          (/\ Len(calls'[address]) = Len(calls[address]) + 1
           /\ LET call == calls'[address][Len(calls'[address])]
              IN  /\ call.op \in RequirementOps
                  /\ \E stored \in RequirementSet(address, call.op) :
                         /\ stored.path = call.arg.path
                         /\ call.arg.priority <= stored.priority)
          => /\ sets'[address].script_requirements = sets[address].script_requirements
             /\ sets'[address].style_requirements = sets[address].style_requirements
      ]_vars

(***************************************************************************)
(* C6: when two declarations of one requirement path with different        *)
(* priorities, each carrying a preload resource of one resource path, are  *)
(* added to a resolver that holds nothing for these paths, the Resource    *)
(* stored for the resource path is the one of the higher-priority          *)
(* declaration, whichever is added first.                                  *)
(***************************************************************************)
\* the resource of a path that a requirement carries
Carried(requirement, path) ==
    {resource \in Items(requirement.preload_resources) : resource.path = path}

C6_WinnersResourceStored ==
    \A address \in Addresses :
        LET n == Len(calls[address])
        IN  n >= 2 =>
            LET first  == calls[address][n - 1]
                second == calls[address][n]
                winner == IF first.arg.priority > second.arg.priority
                          THEN first.arg ELSE second.arg
            IN  (/\ first.op \in RequirementOps /\ second.op = first.op
                 /\ first.arg.path = second.arg.path
                 /\ first.arg.priority # second.arg.priority)
                => \A path \in ResourcePaths :
                       (/\ Carried(first.arg, path) # {}
                        /\ Carried(second.arg, path) # {}
                        \* nothing was held for the paths before the two calls
                        /\ \A k \in 1..(n - 2) :
                               /\ path \notin PathsOf(Declares(calls[address][k]))
                               /\ calls[address][k].op = first.op
                                      => calls[address][k].arg.path # first.arg.path)
                       => {resource \in sets[address].resource_preload :
                               resource.path = path} = Carried(winner, path)

(***************************************************************************)
(* C7: adding a requirement object that was added before leaves the three  *)
(* sets of the resolver exactly as they are.                               *)
(***************************************************************************)
C7_ReAddChangesNothing ==
    [][\A address \in Addresses :
          (/\ Len(calls'[address]) = Len(calls[address]) + 1
           /\ LET call == calls'[address][Len(calls'[address])]
              IN  /\ call.op \in RequirementOps
                  /\ call.arg \in Args(address, call.op))
          => sets'[address] = sets[address]
      ]_vars

\* a requirement was added, outranked by a later declaration of its path, and
\* added again
C7_Witness ==
    \E i, j, k \in Indices(DefaultSets) :
        /\ i < j /\ j < k
        /\ calls[DefaultSets][i].op \in RequirementOps
        /\ calls[DefaultSets][k] = calls[DefaultSets][i]
        /\ calls[DefaultSets][j].op = calls[DefaultSets][i].op
        /\ calls[DefaultSets][j].arg.path = calls[DefaultSets][i].arg.path
        /\ calls[DefaultSets][j].arg.priority > calls[DefaultSets][i].arg.priority
        /\ calls[DefaultSets][j].arg \in RequirementSet(DefaultSets, calls[DefaultSets][i].op)

(***************************************************************************)
(* C8: add_resource on a stored path is a no-op with overwrite=False and   *)
(* replaces the stored object with overwrite=True; either way one resource *)
(* is held for the path.  On a path not yet stored both modes insert.      *)
(***************************************************************************)
C8_AddResource ==
    [][\A address \in Addresses :
          (/\ Len(calls'[address]) = Len(calls[address]) + 1
           /\ calls'[address][Len(calls'[address])].op = "add_resource")
          => LET call   == calls'[address][Len(calls'[address])]
                 before == sets[address].resource_preload
                 after  == sets'[address].resource_preload
                 same   == {resource \in before : resource.path = call.arg.path}
             IN  /\ same # {} /\ ~call.overwrite => after = before
                 /\ same # {} /\ call.overwrite
                        => after = (before \ same) \cup {call.arg}
                 /\ same = {} => after = before \cup {call.arg}
                 /\ Cardinality({resource \in after :
                                    resource.path = call.arg.path}) = 1
      ]_vars

\* a stored resource was overwritten by another object of its path, and a
\* later add_resource without overwrite of the first object changed nothing
C8_Witness ==
    \E i, j, k \in Indices(DefaultSets) :
        LET first  == calls[DefaultSets][i]
            second == calls[DefaultSets][j]
            third  == calls[DefaultSets][k]
        IN  /\ i < j /\ j < k /\ k = Len(calls[DefaultSets])
            /\ first.op = "add_resource" /\ second.op = "add_resource"
            /\ third.op = "add_resource"
            /\ second.arg.path = first.arg.path /\ second.arg # first.arg
            /\ second.overwrite
            /\ third.arg = first.arg /\ ~third.overwrite
            /\ second.arg \in sets[DefaultSets].resource_preload
            /\ first.arg \notin sets[DefaultSets].resource_preload

(***************************************************************************)
(* C9: add_script, add_style and add_resource raise a type error for a     *)
(* value of the wrong type, and the list operations for a non-list or a    *)
(* list with any item of the wrong type; in every such case the three sets *)
(* are left as they were, so none of the valid items of the list is added. *)
(***************************************************************************)
\* what a list operation must reject
Rejected(list, cls) == ~IsInstance(list, "list") \/ ~AllInstances(list, cls)

C9_TypeErrorChangesNothing ==
    LET self == sets[DefaultSets]
    IN  /\ \A value \in NotScripts : add_script(self, value) = RaiseTypeError(self)
        /\ \A value \in NotStyles : add_style(self, value) = RaiseTypeError(self)
        /\ \A value \in NotResources, overwrite \in BOOLEAN :
               add_resource(self, value, overwrite) = RaiseTypeError(self)
        /\ \A list \in ListsOf(ScriptListItems) \cup {PyStr("/a.js")} :
               Rejected(list, "ScriptRequirement")
                   => add_script_list(self, list) = RaiseTypeError(self)
        /\ \A list \in ListsOf(StyleListItems) \cup {PyStr("/a.css")} :
               Rejected(list, "StyleRequirement")
                   => add_style_list(self, list) = RaiseTypeError(self)
        /\ \A list \in ListsOf(ResourceListItems) \cup {PyStr("/f.woff")},
              overwrite \in BOOLEAN :
               Rejected(list, "Resource")
                   => add_resource_list(self, list, overwrite) = RaiseTypeError(self)

\* a call raised on a resolver that holds a script, a style and a resource,
\* and a list of a valid script not yet stored followed by an invalid item
\* is rejected there
C9_Witness ==
    /\ raised = "TypeError"
    /\ sets[DefaultSets].script_requirements # {}
    /\ sets[DefaultSets].style_requirements # {}
    /\ sets[DefaultSets].resource_preload # {}
    /\ \E script \in ScriptListItems \ {PyStr("/a.js")} :
           /\ ~Contains(sets[DefaultSets].script_requirements, script)
           /\ add_script_list(sets[DefaultSets], PyList(<<script, PyStr("/a.js")>>))
                  = RaiseTypeError(sets[DefaultSets])

(***************************************************************************)
(* C3: every PageResourceData created without arguments starts with three  *)
(* empty sets, whatever was added to the instances created before, and a   *)
(* call on one instance never changes the sets of another instance.        *)
(***************************************************************************)
\* the sets an instance's attributes refer to
SetsOf(page) == sets[pages[page]]

C3_StartsEmpty ==
    Len(pages') = Len(pages) + 1 => sets'[pages'[Len(pages')]] = EmptySets

C3_NoSharing ==
    sets' # sets =>
        \E page \in 1..Len(pages) :
            \A other \in 1..Len(pages) \ {page} : sets'[pages[other]] = SetsOf(other)

C3_FreshAndUnshared == [][C3_StartsEmpty /\ C3_NoSharing]_vars

(***************************************************************************)
(* C10: for any template T and any call T(...) with any override           *)
(* arguments, T's own children, attributes, data-attributes and flags are  *)
(* unchanged by the call, T renders to the same string before and after,   *)
(* and later changes made to the returned clone's children, attributes or  *)
(* data never change T.                                                    *)
(***************************************************************************)
C10_TemplateNeverChanges ==
    template # Null =>
        /\ heap[template] = original.object
        /\ Rendering(heap, template) = original.rendered

\* the part that concerns the template's own fields
C10_OwnFieldsUnchanged ==
    template # Null => heap[template] = original.object

\* the template renders alike as long as no object it shares with the clone
\* was changed
C10_RendersAlikeUnlessShared ==
    (template # Null /\ ~shared_changed) =>
        Rendering(heap, template) = original.rendered


\* ---------------------------------------------------------------------------
\* Render calls of two requests on one shared template
\* ---------------------------------------------------------------------------

\* the number of requests that render the shared template at the same time
MaxRenders == 2

\* the local context of a request: its payload under the key "p"
Payload(value) == Dict(<<Entry(<<"p">>, value)>>)

RequestContexts ==
    {Payload(PyInt(1)), Payload(PyInt(2)), Payload(Text(<<"[", "3", "]">>)),
     Payload(Text(<<"x">>))}

\* JSONData(local_var("p"))
PayloadTemplate ==
    JSONData_init(EmptyHeap, local_var(<<"p">>, None), Dict(<<>>), <<>>, <<>>)

\* JSONData("[0]", attrs = {"id": local_var("p")})
ConstantPayloadTemplate ==
    JSONData_init(EmptyHeap, Text(<<"[", "0", "]">>), Dict(<<>>),
                  <<Entry(<<"i", "d">>, local_var(<<"p">>, None))>>, <<>>)

\* tagSPAN(local_var("p"))
SlotTemplate ==
    HTMLElement_init(EmptyHeap, "tagSPAN", <<local_var(<<"p">>, None)>>, <<>>,
                     FALSE, FALSE, <<>>, <<>>)

\* Page(tagB(local_var("p")))
PageTemplate ==
    LET b == HTMLElement_init(EmptyHeap, "tagB", <<local_var(<<"p">>, None)>>, <<>>,
                              FALSE, FALSE, <<>>, <<>>)
    IN  HTMLElement_init(b.heap, "Page", <<Ref(b.value)>>, <<>>, FALSE, FALSE, <<>>, <<>>)

\* Raw("{ctx_local[p]}", format_content = True)
RawTemplate ==
    Raw_init(EmptyHeap,
             <<Text(<<"{", "c", "t", "x", "_", "l", "o", "c", "a", "l", "[", "p", "]", "}">>)>>,
             <<>>, <<" ">>, FALSE, FALSE, TRUE)

SharedTemplates ==
    {PayloadTemplate, ConstantPayloadTemplate, SlotTemplate, PageTemplate, RawTemplate}

\* a template is built and MaxRenders requests call its render, each with its
\* own local context
InitRace ==
    /\ pages = <<>>
    /\ sets = [address \in Addresses |-> EmptySets]
    /\ calls = [address \in Addresses |-> <<>>]
    /\ raised = "none"
    /\ \E built \in SharedTemplates :
           /\ heap = built.heap
           /\ template = built.value
           /\ original = [object |-> built.heap[built.value], heap |-> built.heap]
    /\ clone = Null
    /\ shared_changed = FALSE
    /\ steps = 0
    /\ request = <<>>
    /\ response = <<>>
    /\ threads \in [1 .. MaxRenders ->
                       [local_context : RequestContexts, pc : {"called"},
                        result : {<<>>}]]

\* render of a node that is no JSONData: HTMLElement.render, Page.render and
\* Raw.render assign nothing, so the call is one step
RenderWithoutWrite(t) ==
    /\ threads[t].pc = "called"
    /\ heap[template].cls # "JSONData"
    /\ threads' = [threads EXCEPT
                      ![t].pc = "returned",
                      ![t].result = item_render(heap, template, EmptyContext,
                                                threads[t].local_context, 0, FALSE)]
    /\ UNCHANGED <<pages, sets, calls, raised, tree, request, response>>

\* JSONData.render, lines 618-640: the payload is resolved in the call's own
\* contexts and assigned to self.children
JSONData_render_assign(t) ==
    /\ threads[t].pc = "called"
    /\ heap[template].cls = "JSONData"
    /\ LET temp_data == JSONData_temp_data(heap, template, EmptyContext,
                                           threads[t].local_context)
       IN  IF IsError(temp_data)
           THEN /\ threads' = [threads EXCEPT ![t].pc = "returned",
                                              ![t].result = temp_data]
                /\ heap' = heap
           ELSE /\ threads' = [threads EXCEPT ![t].pc = "assigned"]
                /\ heap' = JSONData_assign(heap, template, temp_data)
    /\ UNCHANGED <<pages, sets, calls, raised, template, clone, original,
                   shared_changed, steps, request, response>>

\* JSONData.render, lines 642-647: super().render reads self.children
JSONData_render_super(t) ==
    /\ threads[t].pc = "assigned"
    /\ threads' = [threads EXCEPT
                      ![t].pc = "returned",
                      ![t].result = render(heap, template, EmptyContext,
                                           threads[t].local_context, 0, FALSE)]
    /\ UNCHANGED <<pages, sets, calls, raised, tree, request, response>>

NextRace ==
    \E t \in 1 .. MaxRenders :
        \/ RenderWithoutWrite(t)
        \/ JSONData_render_assign(t)
        \/ JSONData_render_super(t)

SpecRace == InitRace /\ [][NextRace]_vars

\* what the call of request t returns when no other call runs
RendersAlone(t) ==
    item_render(original.heap, template, EmptyContext, threads[t].local_context,
                0, FALSE)

\* C11: each of two interleaved render calls on a shared template returns the
\* string it returns when it runs alone
C11_EachCallReturnsItsOwnString ==
    \A t \in DOMAIN threads :
        threads[t].pc = "returned" => threads[t].result = RendersAlone(t)

\* C12: when a render call has returned, the node it was called on holds what
\* it held before
C12_RenderLeavesNodeUnchanged ==
    (\E t \in DOMAIN threads : threads[t].pc = "returned")
        => heap[template] = original.object


\* ---------------------------------------------------------------------------
\* Elements are constructed, called and rendered
\* ---------------------------------------------------------------------------

BuildClasses == {"tagBR", "tagIMG", "tagDIV", "tagSPAN"}

BuildPositional ==
    {<<>>, <<Text(<<"x">>)>>, <<Text(<<>>)>>, <<PyList(<<>>)>>}

BuildChildren == {<<>>, <<Text(<<"z">>)>>}

BuildAttrs == {<<>>, <<Entry(<<"i", "d">>, Text(<<"<", "y">>))>>}

InitBuild ==
    /\ pages = <<>>
    /\ sets = [address \in Addresses |-> EmptySets]
    /\ calls = [address \in Addresses |-> <<>>]
    /\ raised = "none"
    /\ NoTree
    /\ NoIO

\* template = cls(*args, children = children, attrs = attrs)
Construct(cls, args, children, attrs) ==
    /\ template = Null
    /\ LET result == HTMLElement_init(heap, cls, args, children, FALSE, FALSE, attrs, <<>>)
       IN  /\ heap' = result.heap
           /\ template' = result.value
           /\ raised' = result.raised
    /\ request' = [op |-> "init", cls |-> cls, args |-> args, children |-> children]
    /\ response' = <<>>
    /\ UNCHANGED <<pages, sets, calls, clone, original, shared_changed, steps, threads>>

\* clone = template(*args, children = children, attrs = attrs)
CallBuilt(args, children, attrs) ==
    /\ template # Null
    /\ clone = Null
    /\ steps < MaxSteps
    /\ LET result == HTMLElement_call(Collect(heap, {template}), template, args,
                                      children, FALSE, FALSE, attrs, <<>>)
       IN  IF result.raised = "none"
           THEN /\ heap' = Collect(result.heap, {template, result.value})
                /\ clone' = result.value
                /\ raised' = "none"
           ELSE /\ heap' = heap
                /\ clone' = clone
                /\ raised' = result.raised
    /\ request' = [op |-> "call", cls |-> heap[template].cls, args |-> args,
                   children |-> children]
    /\ steps' = steps + 1
    /\ UNCHANGED <<pages, sets, calls, template, original, shared_changed, response,
                   threads>>

\* target.render(indent = indent, whitespace_sensitive = whitespace_sensitive)
RenderBuilt(target, indent, whitespace_sensitive) ==
    /\ target # Null
    /\ LET rendered == item_render(heap, target, EmptyContext, EmptyContext, indent,
                                   whitespace_sensitive)
       IN  /\ response' = [target |-> target, rendered |-> rendered]
           /\ raised' = IF IsError(rendered) THEN rendered[2] ELSE "none"
    /\ request' = [op |-> "render", cls |-> heap[target].cls, indent |-> indent,
                   whitespace_sensitive |-> whitespace_sensitive]
    /\ UNCHANGED <<pages, sets, calls, tree, threads>>

NextBuild ==
    \/ \E cls \in BuildClasses, args \in BuildPositional, children \in BuildChildren,
          attrs \in BuildAttrs :
           Construct(cls, args, children, attrs)
    \/ \E args \in BuildPositional, children \in BuildChildren, attrs \in BuildAttrs :
           CallBuilt(args, children, attrs)
    \/ \E target \in {template, clone}, indent \in {0, INDENT},
          whitespace_sensitive \in BOOLEAN :
           RenderBuilt(target, indent, whitespace_sensitive)

SpecBuild == InitBuild /\ [][NextBuild]_vars

\* the number of times the character occurs in the string
Occurrences(string, char) ==
    Cardinality({i \in 1 .. Len(string) : string[i] = char})

\* the elements of self-closing classes that exist
SelfClosingElements ==
    {address \in HeapAddresses :
        heap[address].cls \in ElementClasses /\ SelfClosing(heap[address].cls)}

\* the constructor or call under way is given one or more children for a
\* self-closing element
GivesChildrenToSelfClosing ==
    /\ request' # <<>>
    /\ request'.op \in {"init", "call"}
    /\ SelfClosing(request'.cls)
    /\ Len(request'.args) + Len(request'.children) >= 1

\* constructing or calling a self-closing element with one or more children
\* raises a structural error and yields no element
ChildrenAreRejected ==
    GivesChildrenToSelfClosing =>
        /\ raised' = "HTMLStructuralError"
        /\ heap' = heap
        /\ template' = template
        /\ clone' = clone

\* a self-closing element has no children and renders as one <tag .../>
SelfClosingHasNoChildren ==
    /\ \A address \in SelfClosingElements : heap[address].children = <<>>
    /\ response # <<>> /\ response.target \in SelfClosingElements =>
           LET rendered == response.rendered
           IN  /\ Occurrences(rendered, "<") = 1
               /\ Occurrences(rendered, "\n") = 0
               /\ Len(rendered) >= 2
               /\ SubSeq(rendered, Len(rendered) - 1, Len(rendered)) = <<"/", ">">>

\* C13: constructing or calling a self-closing element with one or more children
\* always raises a structural error and yields no element, so every
\* self-closing element has no children and renders as one <tag .../>
C13_SelfClosingRejectsChildren ==
    [][ChildrenAreRejected]_vars /\ []SelfClosingHasNoChildren

\* a self-closing element was built and rendered, and then called with a child,
\* which raised
C13_Witness ==
    /\ template \in SelfClosingElements
    /\ response # <<>>
    /\ response.target = template
    /\ request.op = "call"
    /\ Len(request.args) + Len(request.children) >= 1
    /\ raised = "HTMLStructuralError"


\* ---------------------------------------------------------------------------
\* Trees of elements are rendered
\* ---------------------------------------------------------------------------

LeafVariants == {"text", "element", "sequence", "raw", "br"}

\* the children of the inner element: the objects built for them and the items
LeafItems(variant) ==
    CASE variant = "text" ->
             [heap |-> EmptyHeap,
              items |-> <<Text(<<"<", "s", ">", "&", "\"", "'">>)>>]
      [] variant = "element" ->
             LET b == HTMLElement_init(EmptyHeap, "tagB", <<Text(<<"c">>)>>, <<>>, FALSE,
                                       FALSE, <<Entry(<<"t">>, Text(<<"'">>))>>, <<>>)
             IN  [heap |-> b.heap,
                  items |-> <<Text(<<"a", "\n", "b">>), Ref(b.value)>>]
      [] variant = "sequence" ->
             [heap |-> EmptyHeap,
              items |-> <<PyList(<<Text(<<"d">>), Text(<<"<", "e">>)>>),
                          Lambda(Text(<<"f", "\n", "g">>))>>]
      [] variant = "raw" ->
             LET raw == Raw_init(EmptyHeap, <<Text(<<"r", ">">>), Text(<<"s">>)>>, <<>>,
                                 <<" ">>, FALSE, FALSE, FALSE)
             IN  [heap |-> raw.heap, items |-> <<Ref(raw.value), Text(<<"x">>)>>]
      [] variant = "br" ->
             LET br == HTMLElement_init(EmptyHeap, "tagBR", <<>>, <<>>, FALSE, FALSE,
                                        <<>>, <<>>)
             IN  [heap |-> br.heap, items |-> <<Ref(br.value), Text(<<"y">>)>>]

\* tagDIV("t", tagPRE(*items, ...flags of the inner element), ...flags of the
\* outer element)
RenderedTree(variant, inner_escape, inner_sensitive, outer_escape, outer_sensitive) ==
    LET leaf  == LeafItems(variant)
        inner == HTMLElement_init(leaf.heap, "tagPRE", leaf.items, <<>>, inner_escape,
                                  inner_sensitive, <<>>, <<>>)
    IN  HTMLElement_init(inner.heap, "tagDIV", <<Text(<<"t">>), Ref(inner.value)>>, <<>>,
                         outer_escape, outer_sensitive,
                         <<Entry(<<"i", "d">>, Text(<<"n">>))>>, <<>>)

InitRender ==
    /\ pages = <<>>
    /\ sets = [address \in Addresses |-> EmptySets]
    /\ calls = [address \in Addresses |-> <<>>]
    /\ raised = "none"
    /\ \E variant \in LeafVariants, inner_escape \in BOOLEAN, inner_sensitive \in BOOLEAN,
          outer_escape \in BOOLEAN, outer_sensitive \in BOOLEAN :
           LET built == RenderedTree(variant, inner_escape, inner_sensitive,
                                     outer_escape, outer_sensitive)
           IN  /\ heap = built.heap
               /\ template = built.value
    /\ clone = Null
    /\ original = <<>>
    /\ shared_changed = FALSE
    /\ steps = 0
    /\ NoIO

\* the elements of the tree
Elements == {address \in HeapAddresses : heap[address].cls \in ElementClasses \cup {"Raw"}}

NextRender ==
    \E target \in Elements, indent \in {0, INDENT}, whitespace_sensitive \in BOOLEAN :
        RenderBuilt(target, indent, whitespace_sensitive)

SpecRender == InitRender /\ [][NextRender]_vars

\* the HTML entity of a character
Entity(char) ==
    CASE char = "&" -> <<"&", "a", "m", "p", ";">>
      [] char = "<" -> <<"&", "l", "t", ";">>
      [] char = ">" -> <<"&", "g", "t", ";">>
      [] char = "\"" -> <<"&", "q", "u", "o", "t", ";">>
      [] char = "'" -> <<"&", "#", "x", "2", "7", ";">>
      [] OTHER -> <<char>>

Entities(string) == Concat([i \in 1..Len(string) |-> Entity(string[i])])

\* the opening and closing tags of an element, without indentation
OpeningTag(h, element) ==
    CatAll(<<<<"<">>, Name(h[element].cls),
             IF h[element].attributes # <<>>
             THEN <<" ">> \o encode_tag_attributes(h, h[element].attributes, <<>>, <<".">>,
                                                   EmptyContext, EmptyContext, FALSE)
             ELSE <<>>,
             IF h[element].data # <<>>
             THEN <<" ">> \o encode_tag_attributes(h, h[element].data, <<>>, <<".">>,
                                                   EmptyContext, EmptyContext, TRUE)
             ELSE <<>>,
             IF SelfClosing(h[element].cls) THEN <<"/", ">">> ELSE <<">">>>>)

ClosingTag(h, element) == <<"<", "/">> \o Name(h[element].cls) \o <<">">>

\* an item written out with nothing inserted: tags, strings and the results of
\* callables one after the other, whatever the whitespace flags of the elements
RECURSIVE Flat(_, _), FlatAll(_, _)
Flat(h, item) ==
    LET element == h[item.addr]
        content == IF element.cls = "Raw"
                   THEN FlatAll(h, element.code)
                   ELSE FlatAll(h, element.children)
        escaped == IF element.escape_content THEN Entities(content) ELSE content
    IN  IF item.cls = "ref"
        THEN IF element.cls = "Raw"
             THEN escaped
             ELSE IF SelfClosing(element.cls)
             THEN OpeningTag(h, item.addr)
             ELSE OpeningTag(h, item.addr) \o escaped \o ClosingTag(h, item.addr)
        ELSE IF Callable(item)
        THEN Flat(h, Invoke(h, item, EmptyContext, EmptyContext))
        ELSE IF item.cls = "list"
        THEN FlatAll(h, item.items)
        ELSE Str(item)

FlatAll(h, items) ==
    IF items = <<>> THEN <<>> ELSE Flat(h, Head(items)) \o FlatAll(h, Tail(items))

\* the content of an element written out with nothing inserted
FlatContent(h, element) ==
    LET content == FlatAll(h, h[element].children)
    IN  IF h[element].escape_content THEN Entities(content) ELSE content

\* a render call has returned
Rendered == request # <<>> /\ request.op = "render"

\* C15: an element marked whitespace-sensitive is rendered without indent prefix
\* before its tags and without newline between its tags and its content,
\* whatever the indent and the flag of the caller
C15_MarkedElementIsFlat ==
    Rendered /\ heap[response.target].whitespace_sensitive =>
        response.rendered = Flat(heap, Ref(response.target))

\* C16: below an element marked whitespace-sensitive, and everywhere when render
\* is entered with whitespace_sensitive = True, every descendant is written
\* without indentation and without inserted newline, whatever its own flag
C16_SensitivityStaysOn ==
    Rendered =>
        LET target   == response.target
            rendered == response.rendered
        IN  /\ request.whitespace_sensitive => rendered = Flat(heap, Ref(target))
            /\ heap[target].whitespace_sensitive /\ heap[target].cls # "Raw" =>
                   \E prefix \in {<<>>, Spaces(request.indent)}, 
                      newline \in {<<>>, <<"\n">>} :
                       rendered = CatAll(<<prefix, OpeningTag(heap, target), newline,
                                           FlatContent(heap, target), newline, prefix,
                                           ClosingTag(heap, target)>>)

\* an unmarked element with an unmarked element below it was rendered below a
\* marked element
C16_Witness ==
    /\ Rendered
    /\ ~request.whitespace_sensitive
    /\ request.indent = INDENT
    /\ response.target = template
    /\ heap[template].whitespace_sensitive
    /\ \E inner \in Elements, leaf \in Elements :
           /\ Ref(inner) \in Range(heap[template].children)
           /\ ~heap[inner].whitespace_sensitive
           /\ heap[inner].cls # "Raw"
           /\ Ref(leaf) \in Range(heap[inner].children)
           /\ heap[leaf].cls = "tagB"

\* what the element renders between its tags when its escape_content is unset
UnescapedContent(target, indent, whitespace_sensitive) ==
    LET prefix == IF whitespace_sensitive THEN <<>> ELSE Spaces(indent)
        plain  == render([heap EXCEPT ![target].escape_content = FALSE], target,
                         EmptyContext, EmptyContext, indent, whitespace_sensitive)
    IN  SubSeq(plain, Len(prefix) + Len(OpeningTag(heap, target)) + 1,
               Len(plain) - Len(prefix) - Len(ClosingTag(heap, target)))

\* C17: an element with escape_content set renders its own tags unescaped and,
\* between them, the rendered content of its children with each of & < > " '
\* replaced by its entity, markup of descendants included; with escape_content
\* unset the content is as rendered
C17_ContentEscapedAsOneBlock ==
    Rendered /\ heap[response.target].cls \notin {"Raw", "tagBR"} =>
        LET target  == response.target
            prefix  == IF request.whitespace_sensitive THEN <<>> ELSE Spaces(request.indent)
            content == UnescapedContent(target, request.indent, request.whitespace_sensitive)
        IN  response.rendered =
                CatAll(<<prefix, OpeningTag(heap, target),
                         IF heap[target].escape_content THEN Entities(content) ELSE content,
                         prefix, ClosingTag(heap, target)>>)

\* an element with escape_content set was rendered whose content holds the
\* markup of a descendant element and a quote
C17_Witness ==
    /\ Rendered
    /\ heap[response.target].cls = "tagDIV"
    /\ heap[response.target].escape_content
    /\ \E leaf \in Elements : heap[leaf].cls = "tagB"
    /\ Occurrences(response.rendered, "&") >= 6
    /\ Occurrences(response.rendered, "<") = 2


\* ---------------------------------------------------------------------------
\* Attribute mappings are encoded
\* ---------------------------------------------------------------------------

\* the number of entries of an encoded mapping
MaxEntries == 2

AttributeKeys == {<<"a">>, <<"b", "C">>, <<"d", "-", "e">>}

AttributeValues ==
    {Text(<<"x">>), Text(<<" ", "x", " ">>), Text(<<>>), Text(<<"<", "'">>),
     Bool(TRUE), Bool(FALSE), PyInt(1), None,
     Dict(<<Entry(<<"y">>, PyList(<<PyInt(1), PyInt(2)>>))>>),
     Dict(<<Entry(<<"x">>, Text(<<"1">>)), Entry(<<"y">>, Bool(FALSE)),
            Entry(<<"z">>, Text(<<"2">>))>>),
     Dict(<<Entry(<<"d", "-", "e">>, Text(<<"x">>))>>),
     PyList(<<Text(<<"1">>), Text(<<>>), Text(<<"2">>)>>),
     local_var(<<"p">>, None), local_var(<<"q">>, None), local_var(<<"m">>, None),
     Lambda(Bool(FALSE))}

\* {"a": "x", "b": True, "c": {"y": [1, 2]}}
ExampleMapping ==
    <<Entry(<<"a">>, Text(<<"x">>)), Entry(<<"b">>, Bool(TRUE)),
      Entry(<<"c">>, Dict(<<Entry(<<"y">>, PyList(<<PyInt(1), PyInt(2)>>))>>))>>

\* the mappings with up to MaxEntries entries, as dicts keep them: in insertion
\* order, each key once
AttributeMappings ==
    {ExampleMapping} \cup
    UNION {{data \in [1 .. n -> [key : AttributeKeys, value : AttributeValues]] :
                \A i, j \in 1 .. n : i # j => data[i].key # data[j].key} :
           n \in 1 .. MaxEntries}

\* is_data_attribute and concatenator
EncodeArguments == {<<FALSE, <<".">>>>, <<TRUE, <<".">>>>, <<FALSE, <<"_">>>>}

\* the local context of the encoding
EncodeContext ==
    Dict(<<Entry(<<"p">>, Text(<<>>)),
           Entry(<<"q">>, Dict(<<Entry(<<"k">>, Bool(TRUE)),
                                 Entry(<<"d", "-", "e">>, PyInt(2))>>))>>)

InitEncode ==
    /\ pages = <<>>
    /\ sets = [address \in Addresses |-> EmptySets]
    /\ calls = [address \in Addresses |-> <<>>]
    /\ raised = "none"
    /\ NoTree
    /\ \E data \in AttributeMappings, arguments \in EncodeArguments :
           request = [op |-> "encode", data |-> data,
                      is_data_attribute |-> arguments[1],
                      concatenator |-> arguments[2]]
    /\ response = <<>>
    /\ threads = <<>>

\* encode_tag_attributes(data, concatenator = concatenator,
\*                       local_context = EncodeContext,
\*                       is_data_attribute = is_data_attribute)
Encode ==
    /\ request # <<>>
    /\ request.op = "encode"
    /\ response = <<>>
    /\ LET encoded == encode_tag_attributes(heap, request.data, <<>>,
                                            request.concatenator, EmptyContext,
                                            EncodeContext, request.is_data_attribute)
       IN  /\ response' = [encoded |-> encoded]
           /\ raised' = IF IsError(encoded) THEN encoded[2] ELSE "none"
    /\ UNCHANGED <<pages, sets, calls, tree, request, threads>>

NextEncode == Encode

SpecEncode == InitEncode /\ [][NextEncode]_vars

\* encode_tag_attributes has returned a string
Encoded == response # <<>> /\ ~IsError(response.encoded)

\* the strings between the spaces of a string
RECURSIVE Words(_)
Words(string) ==
    IF " " \notin Range(string)
    THEN IF string = <<>> THEN <<>> ELSE <<string>>
    ELSE LET space == CHOOSE i \in 1 .. Len(string) :
                          string[i] = " " /\ \A j \in 1 .. (i - 1) : string[j] # " "
         IN  (IF space = 1 THEN <<>> ELSE <<SubSeq(string, 1, space - 1)>>)
             \o Words(SubSeq(string, space + 1, Len(string)))

\* the key='value' and bare-key fragments of one value under the attribute
\* name, in order; trimmed: the stringified value is trimmed and left out when
\* empty
RECURSIVE Fragments(_, _, _, _)
Fragments(name, value, concatenator, trimmed) ==
    LET RECURSIVE Nested(_, _, _)
        Nested(keys, values, i) ==
            IF i > Len(values)
            THEN <<>>
            ELSE Fragments(name \o concatenator \o keys[i], values[i], concatenator, trimmed)
                 \o Nested(keys, values, i + 1)
        string == IF trimmed THEN Strip(Str(value)) ELSE Str(value)
    IN  IF value.cls = "dict"
        THEN Nested([i \in 1 .. Len(value.items) |-> value.items[i].key],
                    [i \in 1 .. Len(value.items) |-> value.items[i].value], 1)
        ELSE IF value.cls = "list"
        THEN Nested([i \in 1 .. Len(value.items) |-> <<DigitChars[i]>>], value.items, 1)
        ELSE IF Callable(value)
        THEN Fragments(name, Invoke(heap, value, EmptyContext, EncodeContext), concatenator,
                       trimmed)
        ELSE IF value.cls = "bool"
        THEN IF value.value THEN <<name>> ELSE <<>>
        ELSE IF trimmed /\ string = <<>>
        THEN <<>>
        ELSE <<name \o <<"=", "'">> \o Entities(string) \o <<"'">>>>

\* the fragments of the mapping of the request
RECURSIVE AllFragments(_, _)
AllFragments(data, trimmed) ==
    IF data = <<>>
    THEN <<>>
    ELSE Fragments((IF request.is_data_attribute THEN <<"d", "a", "t", "a", "-">> ELSE <<>>)
                       \o encode_attribute_key(Head(data).key),
                   Head(data).value, request.concatenator, trimmed)
         \o AllFragments(Tail(data), trimmed)

\* a='x' b c.y.0='1' c.y.1='2'
ExampleEncoded ==
    <<"a", "=", "'", "x", "'", " ", "b", " ",
      "c", ".", "y", ".", "0", "=", "'", "1", "'", " ",
      "c", ".", "y", ".", "1", "=", "'", "2", "'">>

\* C18 as stated: every value that is no mapping, list, callable or boolean
\* yields key='<stringified, escaped value>'
C18_EveryOtherValueYieldsPair ==
    Encoded => Words(response.encoded) = Words(JoinWith(<<" ">>, AllFragments(request.data, FALSE)))

\* C18: the encoded string holds, in mapping-iteration order, the fragments of
\* the recursively flattened values: key<concatenator>subkey for a nested
\* mapping, the index for a list, the result of a callable, the bare key for
\* True, nothing for False, and key='value' for any other value whose
\* stringified and trimmed text is not empty, with the text HTML-escaped; every
\* key starts with data- under is_data_attribute; the example encodes to
\* a='x' b c.y.0='1' c.y.1='2'
C18_FlattensRecursively ==
    Encoded =>
        /\ Words(response.encoded) = AllFragments(request.data, TRUE)
        /\ request.data = ExampleMapping /\ ~request.is_data_attribute
               /\ request.concatenator = <<".">>
           => response.encoded = ExampleEncoded

\* the example mapping was encoded
C18_Witness ==
    /\ Encoded
    /\ request.data = ExampleMapping
    /\ ~request.is_data_attribute
    /\ request.concatenator = <<".">>
    /\ Len(response.encoded) = Len(ExampleEncoded)

\* C19: the encoded string is the fragments that are not empty, joined by one
\* space each: a value that is False or stringifies to nothing adds neither a
\* fragment nor a separator, wherever it occurs
C19_JoinedByOneSpace ==
    Encoded => response.encoded = JoinWith(<<" ">>, AllFragments(request.data, TRUE))

\* a key of the mapping, or of a mapping nested in it, holds a hyphen
RECURSIVE HyphenInKeys(_)
HyphenInKeys(value) ==
    LET resolved == IF Callable(value)
                    THEN Invoke(heap, value, EmptyContext, EncodeContext)
                    ELSE value
    IN  /\ resolved.cls \in {"dict", "list"}
        /\ \E i \in 1 .. Len(resolved.items) :
               \/ resolved.cls = "dict" /\ "-" \in Range(resolved.items[i].key)
               \/ HyphenInKeys(IF resolved.cls = "dict"
                               THEN resolved.items[i].value
                               ELSE resolved.items[i])

\* C20: a mapping with a hyphen in a key, at the top level or in a nested
\* mapping, is rejected with an attribute-encoding error
C20_HyphenKeysAreRejected ==
    response # <<>> /\ HyphenInKeys(Dict(request.data)) =>
        response.encoded = Error("HTMLAttributeEncodingError")


\* ---------------------------------------------------------------------------
\* Trees of components are compiled
\* ---------------------------------------------------------------------------

\* HTMLData(code, script_requirements, style_requirements)
HTMLData(code, script_requirements, style_requirements) ==
    [cls |-> "HTMLData",
     _code |-> code,
     _script_requirements |-> script_requirements,
     _style_requirements |-> style_requirements]

\* BaseContainer.template: tagDIV(local_var("children"))
BaseContainer_template ==
    HTMLElement_init(EmptyHeap, "tagDIV",
                     <<local_var(<<"c", "h", "i", "l", "d", "r", "e", "n">>, None)>>,
                     <<>>, FALSE, FALSE, <<>>, <<>>)

\* BaseWrapper.template: tagDIV(local_var("child"))
BaseWrapper_template ==
    HTMLElement_init(EmptyHeap, "tagDIV", <<local_var(<<"c", "h", "i", "l", "d">>, None)>>,
                     <<>>, FALSE, FALSE, <<>>, <<>>)

\* BaseWidget.template: tagSPAN(local_var("text"))
BaseWidget_template ==
    HTMLElement_init(EmptyHeap, "tagSPAN", <<local_var(<<"t", "e", "x", "t">>, None)>>,
                     <<>>, FALSE, FALSE, <<>>, <<>>)

\* BaseContainer._compile_self
BaseContainer_compile_self(self, global_context, compiled_children_strings) ==
    LET local_context ==
            Dict(<<Entry(<<"c", "h", "i", "l", "d", "r", "e", "n">>,
                         PyList([i \in 1 .. Len(compiled_children_strings) |->
                                    Text(compiled_children_strings[i])]))>>)
    IN  item_render(BaseContainer_template.heap, BaseContainer_template.value,
                    global_context, local_context, 0, FALSE)

\* BaseWrapper._compile_self
BaseWrapper_compile_self(self, global_context, compiled_child_string) ==
    LET local_context ==
            Dict(<<Entry(<<"c", "h", "i", "l", "d">>, Text(compiled_child_string))>>)
    IN  item_render(BaseWrapper_template.heap, BaseWrapper_template.value,
                    global_context, local_context, 0, FALSE)

\* BaseWidget._compile_self
BaseWidget_compile_self(self, global_context) ==
    LET local_context == Dict(<<Entry(<<"t", "e", "x", "t">>, Text(self._text))>>)
    IN  item_render(BaseWidget_template.heap, BaseWidget_template.value,
                    global_context, local_context, 0, FALSE)

\* the concatenation of the lists
RECURSIVE Extend(_, _)
Extend(list, lists) ==
    IF lists = <<>> THEN list ELSE Extend(list \o Head(lists), Tail(lists))

\* BaseContainer._compile, given what the children compiled to
BaseContainer_compile(self, global_context, compiled_children) ==
    HTMLData(BaseContainer_compile_self(self, global_context,
                 [i \in 1 .. Len(compiled_children) |-> compiled_children[i]._code]),
             Extend(self._script_requirements,
                    [i \in 1 .. Len(compiled_children) |->
                        compiled_children[i]._script_requirements]),
             Extend(self._style_requirements,
                    [i \in 1 .. Len(compiled_children) |->
                        compiled_children[i]._style_requirements]))

\* BaseWrapper._compile returning the child's requirements before its own
BaseWrapper_compile_child_first(self, global_context, compiled_child) ==
    HTMLData(BaseWrapper_compile_self(self, global_context, compiled_child._code),
             compiled_child._script_requirements \o self._script_requirements,
             compiled_child._style_requirements \o self._style_requirements)

\* BaseWrapper._compile, given what the child compiled to
BaseWrapper_compile(self, global_context, compiled_child) ==
    HTMLData(BaseWrapper_compile_self(self, global_context, compiled_child._code),
             self._script_requirements \o compiled_child._script_requirements,
             self._style_requirements \o compiled_child._style_requirements)

\* BaseWidget._compile
BaseWidget_compile(self, global_context) ==
    HTMLData(BaseWidget_compile_self(self, global_context),
             self._script_requirements, self._style_requirements)

\* child._compile(global_context = global_context), dispatched on the class:
\* BaseContainer, BaseWrapper and BaseWidget define _compile, and a class that
\* does not has the one of BaseElement, which raises NotImplementedError. A
\* container and a wrapper let the exception of a child pass
RECURSIVE _compile(_, _)
_compile(self, global_context) ==
    CASE self.cls = "BaseContainer" ->
             Only({IF \E i \in 1 .. Len(compiled_children) :
                          compiled_children[i].cls = "raise"
                   THEN compiled_children[
                            CHOOSE i \in 1 .. Len(compiled_children) :
                                /\ compiled_children[i].cls = "raise"
                                /\ \A j \in 1 .. (i - 1) :
                                       compiled_children[j].cls # "raise"]
                   ELSE BaseContainer_compile(self, global_context, compiled_children) :
                   compiled_children \in
                       {<<>> \o [i \in 1 .. Len(self._children) |->
                                    _compile(self._children[i], global_context)]}})
      [] self.cls = "BaseWrapper" ->
             Only({IF compiled_child.cls = "raise"
                   THEN compiled_child
                   ELSE BaseWrapper_compile(self, global_context, compiled_child) :
                   compiled_child \in {_compile(self._child, global_context)}})
      [] self.cls = "BaseWidget" -> BaseWidget_compile(self, global_context)
      [] OTHER -> Raise("NotImplementedError")

\* the number of children of a container
MaxChildren == 2

\* the _script_requirements and _style_requirements of a component class; the
\* same requirement may be declared by several classes
RequirementLists ==
    {<<<<>>, <<>>>>, <<<<"a.js">>, <<"a.css">>>>, <<<<"a.js", "b.js">>, <<>>>>}

Widgets ==
    {[cls |-> "BaseWidget", _text |-> text, _script_requirements |-> lists[1],
      _style_requirements |-> lists[2]] :
        text \in {<<"t">>, <<>>}, lists \in RequirementLists}

Wrappers(components) ==
    {[cls |-> "BaseWrapper", _child |-> child, _script_requirements |-> lists[1],
      _style_requirements |-> lists[2]] :
        child \in components, lists \in RequirementLists}

Containers(first, others) ==
    {[cls |-> "BaseContainer", _children |-> children,
      _script_requirements |-> lists[1], _style_requirements |-> lists[2]] :
        children \in {<<>>} \cup
                     UNION {{<<child>> \o rest : child \in first, rest \in [1 .. n -> others]} :
                            n \in 0 .. (MaxChildren - 1)},
        lists \in RequirementLists}

\* a component of a subclass of BaseElement that defines no _compile, alone,
\* wrapped, and as the second child of a container
WithoutCompile(lists) ==
    LET element   == [cls |-> "BaseElement", _script_requirements |-> lists[1],
                      _style_requirements |-> lists[2]]
        widget    == [cls |-> "BaseWidget", _text |-> <<"t">>,
                      _script_requirements |-> lists[1],
                      _style_requirements |-> lists[2]]
    IN  {element,
         [cls |-> "BaseWrapper", _child |-> element, _script_requirements |-> lists[1],
          _style_requirements |-> lists[2]],
         [cls |-> "BaseContainer", _children |-> <<widget, element>>,
          _script_requirements |-> lists[1], _style_requirements |-> lists[2]]}

\* the component trees: widgets, wrappers and containers of widgets, and
\* wrappers and containers of those, the further children of such a container
\* being widgets with a text; and the trees with a component without _compile
Components ==
    LET flat == Wrappers(Widgets) \cup Containers(Widgets, Widgets)
    IN  Widgets \cup flat \cup Wrappers(flat)
        \cup Containers(flat, {widget \in Widgets : widget._text # <<>>})
        \cup WithoutCompile(<<<<"a.js">>, <<"a.css">>>>)

InitCompile ==
    /\ pages = <<>>
    /\ sets = [address \in Addresses |-> EmptySets]
    /\ calls = [address \in Addresses |-> <<>>]
    /\ raised = "none"
    /\ NoTree
    /\ \E component \in Components : request = [op |-> "compile", component |-> component]
    /\ response = <<>>
    /\ threads = <<>>

\* response = component._compile()
Compile ==
    /\ request # <<>>
    /\ request.op = "compile"
    /\ response = <<>>
    /\ raised = "none"
    /\ \E compiled \in {_compile(request.component, EmptyContext)} :
           IF compiled.cls = "raise"
           THEN response' = response /\ raised' = compiled.name
           ELSE response' = compiled /\ raised' = raised
    /\ UNCHANGED <<pages, sets, calls, tree, request, threads>>

NextCompile == Compile

SpecCompile == InitCompile /\ [][NextCompile]_vars

\* the requirement lists of the components of the tree, one after the other in
\* pre-order
RECURSIVE PreOrder(_, _)
PreOrder(component, field) ==
    LET RECURSIVE Of(_)
        Of(components) ==
            IF components = <<>>
            THEN <<>>
            ELSE PreOrder(Head(components), field) \o Of(Tail(components))
    IN  component[field]
        \o (IF component.cls = "BaseContainer"
            THEN Of(component._children)
            ELSE IF component.cls = "BaseWrapper"
            THEN Of(<<component._child>>)
            ELSE <<>>)

\* part occurs in whole as one piece
Contains_string(whole, part) ==
    \E i \in 0 .. (Len(whole) - Len(part)) : SubSeq(whole, i + 1, i + Len(part)) = part

\* a component has been compiled
Compiled == response # <<>>

\* the strings the children of the compiled container compiled to
ChildrenCodes ==
    [i \in 1 .. Len(request.component._children) |->
        _compile(request.component._children[i], EmptyContext)._code]

\* the compiled requirement lists are the pre-order concatenation of the
\* components' own lists, duplicates kept
ListsArePreOrder ==
    /\ response._script_requirements = PreOrder(request.component, "_script_requirements")
    /\ response._style_requirements = PreOrder(request.component, "_style_requirements")

\* C14 as stated: the lists are the pre-order concatenation, and the body of a
\* container holds its children's rendered strings, in order, separated by a
\* newline
C14_BodyHoldsChildrenStrings ==
    Compiled =>
        /\ ListsArePreOrder
        /\ request.component.cls = "BaseContainer" =>
               Contains_string(response._code, JoinWith(<<"\n">>, ChildrenCodes))

\* C14: the compiled requirement lists are the pre-order concatenation of the
\* components' own lists, duplicates kept, and the body of a container is
\* <div>, a newline, its children's rendered strings in child order with every
\* line indented by INDENT more and a newline between them, a newline, </div>
C14_PreOrderListsAndIndentedChildren ==
    Compiled =>
        /\ ListsArePreOrder
        /\ request.component.cls = "BaseContainer" =>
               response._code =
                   <<"<", "d", "i", "v", ">", "\n">>
                   \o JoinWith(<<"\n">>, [i \in 1 .. Len(ChildrenCodes) |->
                                            IndentLines(ChildrenCodes[i], INDENT, TRUE)])
                   \o <<"\n", "<", "/", "d", "i", "v", ">">>

\* a container was compiled whose first child has a child of its own, with a
\* requirement declared by the container, the child and the grandchild
C14_Witness ==
    /\ Compiled
    /\ request.component.cls = "BaseContainer"
    /\ Len(request.component._children) = 2
    /\ request.component._children[1].cls = "BaseWrapper"
    /\ Len(response._script_requirements) >= 4
    /\ Occurrences(response._script_requirements, "a.js") = 3

\* ---------------------------------------------------------------------------
\* Dot-path keys are resolved against a context
\* ---------------------------------------------------------------------------

\* the contexts a key is resolved against
ResolveContexts ==
    {Dict(<<>>),
     Dict(<<Entry(<<"a">>, Text(<<"x">>))>>),
     Dict(<<Entry(<<"a">>, None)>>),
     Dict(<<Entry(<<"a">>, PyInt(1))>>),
     Dict(<<Entry(<<"a">>, Dict(<<>>))>>),
     Dict(<<Entry(<<"a">>, Dict(<<Entry(<<"b">>, Text(<<"y">>))>>))>>),
     Dict(<<Entry(<<"a">>, Dict(<<Entry(<<"b">>, Dict(<<Entry(<<"c">>, Text(<<"z">>))>>))>>))>>)}

ResolveKeys ==
    {<<"a">>, <<"b">>, <<"a", ".", "b">>, <<"b", ".", "c">>, <<"a", ".", "b", ".", "c">>,
     <<>>, <<"a", ".">>}

ResolveDefaults == {None, Text(<<"d">>)}

\* who resolves the key: get_dict_subattribute called directly, or the
\* function global_var / local_var returned, called with the context as
\* global / local context
Resolvers == {"get_dict_subattribute", "global_var", "local_var"}

InitResolve ==
    /\ pages = <<>>
    /\ sets = [address \in Addresses |-> EmptySets]
    /\ calls = [address \in Addresses |-> <<>>]
    /\ raised = "none"
    /\ NoTree
    /\ \E context \in ResolveContexts, key \in ResolveKeys, default \in ResolveDefaults,
          resolver \in Resolvers :
           request = [op |-> "resolve", resolver |-> resolver, context |-> context,
                      key |-> key, default |-> default]
    /\ response = <<>>
    /\ threads = <<>>

\* response = get_dict_subattribute(context, key, default), or the same through
\* global_var(key, default) / local_var(key, default)
Resolve ==
    /\ request # <<>>
    /\ request.op = "resolve"
    /\ response = <<>>
    /\ response' =
           CASE request.resolver = "global_var" ->
                    Invoke(heap, global_var(request.key, request.default), request.context,
                           EmptyContext)
             [] request.resolver = "local_var" ->
                    Invoke(heap, local_var(request.key, request.default), EmptyContext,
                           request.context)
             [] OTHER ->
                    get_dict_subattribute(heap, request.context, request.key, request.default)
    /\ UNCHANGED <<pages, sets, calls, raised, tree, request, threads>>

NextResolve == Resolve

SpecResolve == InitResolve /\ [][NextResolve]_vars

\* the value found by descending the nested mappings along the segments, and
\* the default when a segment is not there
RECURSIVE Descend(_, _, _)
Descend(obj, segments, default) ==
    IF segments = <<>>
    THEN obj
    ELSE IF obj.cls # "dict" \/ \A i \in 1..Len(obj.items) : obj.items[i].key # Head(segments)
    THEN default
    ELSE Descend(DictGet(heap, obj, Head(segments), default), Tail(segments), default)

\* C21: resolving a dot-path key returns the value found by descending the
\* nested mappings when every segment is present and the default otherwise,
\* and raises nothing, whatever the context holds at an intermediate segment
C21_ResolvesOrDefaults ==
    request # <<>> /\ request.op = "resolve" /\ response # <<>> =>
        /\ response.cls # "raise"
        /\ response = Descend(request.context, Split(request.key), request.default)


\* ---------------------------------------------------------------------------
\* Raw nodes are rendered
\* ---------------------------------------------------------------------------

MaxRawItems == 2

\* tagB("c"), the element a Raw node may hold
RawElement == HTMLElement_init(EmptyHeap, "tagB", <<Text(<<"c">>)>>, <<>>, FALSE, FALSE, <<>>, <<>>)

\* the items of a Raw node: strings, a string with a replacement field,
\* functions of the contexts, and the element
RawItems ==
    {Text(<<"a">>),
     Text(<<"<", "\n", "b">>),
     Text(<<"{", "c", "t", "x", "_", "l", "o", "c", "a", "l", "[", "k", "]", "}">>),
     local_var(<<"k">>, None),
     local_var(<<"k", ".", "j">>, Text(<<"d">>)),
     Ref(RawElement.value)}

RECURSIVE RawCodesOf(_)
RawCodesOf(length) ==
    IF length = 0
    THEN {<<>>}
    ELSE LET shorter == RawCodesOf(length - 1)
         IN  shorter \cup {Append(code, item) : code \in shorter, item \in RawItems}

RawCodes == RawCodesOf(MaxRawItems)

RawSeparators == {<<" ">>, <<",", " ">>}

RawContexts ==
    {EmptyContext,
     Dict(<<Entry(<<"k">>, Text(<<"v", "&">>))>>),
     Dict(<<Entry(<<"k">>, None)>>)}

\* template = Raw(*code, separator = separator, escape_content = ...,
\*                format_content = ...)
InitRaw ==
    /\ pages = <<>>
    /\ sets = [address \in Addresses |-> EmptySets]
    /\ calls = [address \in Addresses |-> <<>>]
    /\ raised = "none"
    /\ \E code \in RawCodes, separator \in RawSeparators, escape_content \in BOOLEAN,
          format_content \in BOOLEAN :
           LET built == Raw_init(RawElement.heap, code, <<>>, separator, escape_content,
                                 FALSE, format_content)
           IN  /\ heap = built.heap
               /\ template = built.value
    /\ clone = Null
    /\ original = <<>>
    /\ shared_changed = FALSE
    /\ steps = 0
    /\ NoIO

\* the arguments a Raw node is called with: a string with a replacement
\* field, and a function of the contexts
RawCallArguments ==
    {<<Text(<<"{", "c", "t", "x", "_", "l", "o", "c", "a", "l", "[", "k", "]", "}">>)>>,
     <<local_var(<<"k">>, None)>>}

\* clone = template(*args, format_content = format_content): the other
\* arguments have their defaults. The copy of an element the template held
\* is garbage once the clone has its own code
CallRaw(args, format_content) ==
    /\ template # Null
    /\ heap[template].cls = "Raw"
    /\ clone = Null
    /\ HasRoomToCopy(heap, template)
    /\ LET result == Raw_call(heap, template, args, <<>>, <<" ">>, FALSE, FALSE,
                              format_content)
       IN  /\ heap' = Collect(result.heap, {RawElement.value, template, result.value})
           /\ clone' = result.value
           /\ raised' = result.raised
    /\ request' = [op |-> "call", cls |-> "Raw", args |-> args,
                   format_content |-> format_content]
    /\ response' = <<>>
    /\ UNCHANGED <<pages, sets, calls, template, original, shared_changed, steps, threads>>

\* target.render(indent, global_context = {}, local_context, whitespace_sensitive)
RenderRaw(target, local_context, indent, whitespace_sensitive) ==
    /\ target # Null
    /\ heap[target].cls = "Raw"
    /\ LET rendered == item_render(heap, target, EmptyContext, local_context, indent,
                                   whitespace_sensitive)
       IN  /\ response' = [target |-> target, rendered |-> rendered]
           /\ raised' = IF IsError(rendered) THEN rendered[2] ELSE "none"
    /\ request' = [op |-> "render", cls |-> "Raw", indent |-> indent,
                   whitespace_sensitive |-> whitespace_sensitive,
                   local_context |-> local_context]
    /\ UNCHANGED <<pages, sets, calls, tree, threads>>

NextRaw ==
    \/ \E args \in RawCallArguments, format_content \in BOOLEAN :
           CallRaw(args, format_content)
    \/ \E target \in {template, clone}, local_context \in RawContexts, indent \in {0, INDENT},
          whitespace_sensitive \in BOOLEAN :
           RenderRaw(target, local_context, indent, whitespace_sensitive)

SpecRaw == InitRaw /\ [][NextRaw]_vars

\* a Raw node has been rendered
RawRendered == request # <<>> /\ request.op = "render" /\ request.cls = "Raw"

\* what each item of the code contributes: the string itself, or what the
\* function returns for the contexts
Pieces(code, local_context) ==
    [i \in 1..Len(code) |->
        IF Callable(code[i]) THEN Invoke(heap, code[i], EmptyContext, local_context) ELSE code[i]]

\* the strings joined with the separator between consecutive ones
RECURSIVE Joined(_, _)
Joined(pieces, separator) ==
    IF pieces = <<>>
    THEN <<>>
    ELSE IF Len(pieces) = 1
    THEN pieces[1].value
    ELSE pieces[1].value \o separator \o Joined(Tail(pieces), separator)

\* C22: a Raw node of strings and of functions returning strings renders as
\* the items in order with the node's separator between consecutive items, then
\* formatted with the contexts if format_content, then escaped if
\* escape_content, then indented line by line as ordinary content
C22_JoinedWithSeparator ==
    RawRendered =>
        LET self    == heap[response.target]
            pieces  == Pieces(self.code, request.local_context)
            joined  == Joined(pieces, self.separator)
            formatted == IF self.format_content
                         THEN str_format(heap, joined, EmptyContext, request.local_context)
                         ELSE joined
            escaped == IF self.escape_content /\ ~IsError(formatted)
                       THEN escape_html_text(formatted)
                       ELSE formatted
        IN  (\A i \in 1..Len(pieces) : pieces[i].cls = "str") =>
                response.rendered =
                    IF IsError(escaped)
                    THEN escaped
                    ELSE _render_item(heap, Text(escaped), EmptyContext,
                                      request.local_context, request.indent,
                                      request.whitespace_sensitive)

\* the code holds an element
HoldsElement(code) ==
    \E i \in 1..Len(code) : code[i].cls = "ref"

\* some function of the code returns something that is not a string
ReturnsNonString(code, local_context) ==
    \E i \in 1..Len(code) :
        /\ Callable(code[i])
        /\ Invoke(heap, code[i], EmptyContext, local_context).cls # "str"

\* C23: rendering a Raw node that holds an element at any position, or a
\* function that returns something other than a string, raises the structural
\* error and returns no string
C23_StructuralError ==
    RawRendered =>
        LET self == heap[response.target]
        IN  HoldsElement(self.code) \/ ReturnsNonString(self.code, request.local_context) =>
                response.rendered = Error("HTMLStructuralError")


\* ---------------------------------------------------------------------------
\* JSONData nodes are built, called and rendered
\* ---------------------------------------------------------------------------

\* d = {"a": 1}; d["self"] = d: a dict that holds itself, next to the element
CircularAddress == Min(FreeAddresses(RawElement.heap))

CircularHeap ==
    [RawElement.heap EXCEPT
        ![CircularAddress] = Dict(<<Entry(<<"a">>, PyInt(1)),
                                    Entry(<<"s", "e", "l", "f">>, Ref(CircularAddress))>>)]

\* payloads that are no functions: JSON strings and a string that is none,
\* values json.dumps writes, a list holding an element, which it does not,
\* the dict that holds itself and {"b": element, "a": d}, where json.dumps
\* meets the element first and with sort_keys the dict first
PlainPayloads ==
    {Text(<<"[", "0", "]">>), Text(<<"{", "b">>), PyInt(1), None,
     PyList(<<Text(<<"x">>), Ref(RawElement.value)>>), Ref(RawElement.value),
     Ref(CircularAddress),
     Dict(<<Entry(<<"b">>, Ref(RawElement.value)), Entry(<<"a">>, Ref(CircularAddress))>>)}

\* a function returning the payload
Payloads == PlainPayloads \cup {Lambda(payload) : payload \in PlainPayloads}

\* json_call_kwargs: the default {}, {"separators": "x"}, which json.loads
\* does not know and json.dumps cannot unpack into two separators, and
\* {"sort_keys": True}, which json.loads does not know either
CallArguments ==
    {Dict(<<>>),
     Dict(<<Entry(<<"s", "e", "p", "a", "r", "a", "t", "o", "r", "s">>, Text(<<"x">>))>>),
     Dict(<<Entry(<<"s", "o", "r", "t", "_", "k", "e", "y", "s">>, Bool(TRUE))>>)}

InitJSON ==
    /\ pages = <<>>
    /\ sets = [address \in Addresses |-> EmptySets]
    /\ calls = [address \in Addresses |-> <<>>]
    /\ raised = "none"
    /\ heap = CircularHeap
    /\ template = Null
    /\ clone = Null
    /\ original = <<>>
    /\ shared_changed = FALSE
    /\ steps = 0
    /\ NoIO

\* template = JSONData(json_data, json_call_kwargs)
ConstructJSON(json_data, json_call_kwargs) ==
    /\ template = Null
    /\ LET result == JSONData_init(heap, json_data, json_call_kwargs, <<>>, <<>>)
       IN  /\ heap' = result.heap
           /\ template' = result.value
           /\ raised' = result.raised
    /\ request' = [op |-> "init", cls |-> "JSONData", json_data |-> json_data,
                   json_call_kwargs |-> json_call_kwargs]
    /\ response' = <<>>
    /\ UNCHANGED <<pages, sets, calls, clone, original, shared_changed, steps, threads>>

\* clone = template(json_data, json_call_kwargs)
CallJSON(json_data, json_call_kwargs) ==
    /\ template # Null
    /\ clone = Null
    /\ LET result == JSONData_call(heap, template, json_data, json_call_kwargs, <<>>, <<>>)
       IN  IF result.raised = "none"
           THEN /\ heap' = result.heap
                /\ clone' = result.value
                /\ raised' = "none"
           ELSE /\ heap' = heap
                /\ clone' = clone
                /\ raised' = result.raised
    /\ request' = [op |-> "call", cls |-> "JSONData", json_data |-> json_data,
                   json_call_kwargs |-> json_call_kwargs]
    /\ response' = <<>>
    /\ UNCHANGED <<pages, sets, calls, template, original, shared_changed, steps, threads>>

\* target.render(indent = indent)
RenderJSON(target, indent) ==
    /\ target # Null
    /\ LET temp_data == JSONData_temp_data(heap, target, EmptyContext, EmptyContext)
           rendered  == item_render(heap, target, EmptyContext, EmptyContext, indent, FALSE)
       IN  /\ heap' = IF IsError(temp_data)
                      THEN heap
                      ELSE JSONData_assign(heap, target, temp_data)
           /\ response' = [target |-> target, rendered |-> rendered]
           /\ raised' = IF IsError(rendered) THEN rendered[2] ELSE "none"
    /\ request' = [op |-> "render", cls |-> "JSONData", json_data |-> heap[target].json_data,
                   json_call_kwargs |-> heap[target].json_call_kwargs, indent |-> indent]
    /\ UNCHANGED <<pages, sets, calls, template, clone, original, shared_changed, steps,
                   threads>>

NextJSON ==
    \/ \E json_data \in Payloads, json_call_kwargs \in CallArguments :
           ConstructJSON(json_data, json_call_kwargs)
    \/ \E json_data \in Payloads, json_call_kwargs \in CallArguments :
           CallJSON(json_data, json_call_kwargs)
    \/ \E target \in {template, clone}, indent \in {0, INDENT} : RenderJSON(target, indent)

SpecJSON == InitJSON /\ [][NextJSON]_vars

\* the payload is a string that is no JSON, or a value json.dumps does not
\* write: one that is not JSON serializable, or a dict that holds itself
Malformed(payload) ==
    IF payload.cls = "str"
    THEN ~json_loads_returns(payload.value)
    ELSE IsError(json_dumps(heap, payload))

\* the last operation on a JSONData node
LastJSON(op) == request # <<>> /\ request.cls = "JSONData" /\ request.op = op

\* C24: a malformed payload that is not callable (no function, no element)
\* raises HTMLStructuralError when the node is built and when it is called; a
\* malformed payload returned by a function, and a payload that is an
\* element, raise HTMLStructuralError when the node is rendered; no other
\* error is raised and no string is returned
C24_MalformedIsStructuralError ==
    /\ LastJSON("init") \/ LastJSON("call") =>
           /\ raised \in {"none", "HTMLStructuralError"}
           /\ /\ ~Callable(request.json_data)
              /\ ~IsElement(heap, request.json_data)
              /\ Malformed(request.json_data) =>
                  raised = "HTMLStructuralError"
    /\ LastJSON("render") =>
           /\ raised \in {"none", "HTMLStructuralError"}
           /\ Callable(request.json_data) /\ Malformed(request.json_data.value) =>
                  response.rendered = Error("HTMLStructuralError")
           /\ IsElement(heap, request.json_data) =>
                  response.rendered = Error("HTMLStructuralError")


\* the value of the attribute is None or the empty string, given as it is or
\* returned by a function of the contexts
Unset(value) ==
    LET resolved == IF Callable(value)
                    THEN Invoke(heap, value, EmptyContext, EncodeContext)
                    ELSE value
    IN  resolved.cls = "None" \/ (resolved.cls = "str" /\ resolved.value = <<>>)

\* the entries of the mapping whose value is set
SetEntries(data) == SelectSeq(data, LAMBDA entry : ~Unset(entry.value))

\* C25: an attribute whose value is None or the empty string is not rendered
\* at all, also when the value is the default None a context resolver returns
\* for a missing key: the encoded string is the one of the mapping without
\* these attributes
C25_UnsetNotRendered ==
    Encoded =>
        Words(response.encoded) =
            Words(encode_tag_attributes(heap, SetEntries(request.data), <<>>,
                                        request.concatenator, EmptyContext, EncodeContext,
                                        request.is_data_attribute))


\* ---------------------------------------------------------------------------
\* The requirement compared with the incoming one
\* ---------------------------------------------------------------------------

\* C26: in add_script and add_style, when the path of the incoming requirement
\* is already stored, the object taken from the set intersection as the
\* current requirement is the stored requirement of that path, whether the
\* set stores one requirement or several
C26_CurrentIsStored ==
    [][\A address \in Addresses :
          (/\ Len(calls'[address]) = Len(calls[address]) + 1
           /\ calls'[address][Len(calls'[address])].op \in RequirementOps)
          => LET call   == calls'[address][Len(calls'[address])]
                 stored == RequirementSet(address, call.op)
             IN  Contains(stored, call.arg) =>
                     IntersectionPop(call.arg, stored) \in stored
      ]_vars


\* ---------------------------------------------------------------------------
\* When a stored resource is replaced
\* ---------------------------------------------------------------------------

\* the call a step makes on the resolver at the address, when it makes one
MakesOneCall(address) == Len(calls'[address]) = Len(calls[address]) + 1

\* C27: the resource stored for a path is replaced only by add_resource with
\* overwrite=True and by an add_script / add_style call whose requirement has
\* a strictly higher priority than the stored requirement of its path: a
\* requirement stored for the first time, a tie and a losing add replace no
\* stored resource; and a call that replaces the stored requirement stores
\* every resource the new requirement carries, whatever was stored for the
\* resource's path and whoever contributed it
C27_ReplacedOnlyByWinnerOrOverwrite ==
    [][\A address \in Addresses :
          MakesOneCall(address) =>
              LET call     == calls'[address][Len(calls'[address])]
                  replaced == sets[address].resource_preload
                                  \ sets'[address].resource_preload
                  wins     == /\ call.op \in RequirementOps
                              /\ \E stored \in RequirementSet(address, call.op) :
                                     /\ stored.path = call.arg.path
                                     /\ call.arg.priority > stored.priority
                  replaces == /\ call.op \in RequirementOps
                              /\ Contains(RequirementSet(address, call.op), call.arg)
                              /\ call.arg \notin RequirementSet(address, call.op)
                              /\ call.arg \in sets'[address].script_requirements
                                                  \cup sets'[address].style_requirements
              IN  /\ replaced # {} => (call.op = "add_resource" /\ call.overwrite) \/ wins
                  /\ replaces =>
                         \A path \in PathsOf(Items(call.arg.preload_resources)) :
                             {resource \in sets'[address].resource_preload :
                                  resource.path = path} = Carried(call.arg, path)
      ]_vars

\* a script outranked the stored script of its path, and the resource it
\* carries took the place of the one of the same path that a style, still
\* stored, had contributed
C27_Witness ==
    \E address \in Addresses :
        /\ Len(calls[address]) = 3
        /\ LET style  == calls[address][1]
               loser  == calls[address][2]
               winner == calls[address][3]
           IN  /\ style.op = "add_style"
               /\ loser.op = "add_script"
               /\ winner.op = "add_script"
               /\ winner.arg.path = loser.arg.path
               /\ winner.arg.priority > loser.arg.priority
               /\ winner.arg \in sets[address].script_requirements
               /\ style.arg \in sets[address].style_requirements
               /\ \E path \in ResourcePaths :
                      /\ Carried(style.arg, path) # {}
                      /\ Carried(winner.arg, path) # {}
                      /\ Carried(winner.arg, path) # Carried(style.arg, path)
                      /\ Carried(winner.arg, path) \subseteq sets[address].resource_preload


\* ---------------------------------------------------------------------------
\* Which sets an operation changes
\* ---------------------------------------------------------------------------

\* the operations of the calls a step makes on the resolver at the address
OpsMade(address) ==
    {calls'[address][i].op : i \in (Len(calls[address]) + 1)..Len(calls'[address])}

\* C28: add_script and add_script_list leave style_requirements as it is,
\* add_style and add_style_list leave script_requirements as it is, and
\* add_resource and add_resource_list leave both; beyond its own set an
\* operation changes resource_preload only
C28_OtherRequirementSetUnchanged ==
    [][\A address \in Addresses :
          LET scripts_unchanged == sets'[address].script_requirements
                                       = sets[address].script_requirements
              styles_unchanged  == sets'[address].style_requirements
                                       = sets[address].style_requirements
          IN  /\ OpsMade(address) = {"add_script"} => styles_unchanged
              /\ OpsMade(address) = {"add_style"} => scripts_unchanged
              /\ OpsMade(address) = {"add_resource"} =>
                     scripts_unchanged /\ styles_unchanged
              /\ OpsMade(address) = {} => scripts_unchanged /\ styles_unchanged
      ]_vars

\* a list of two scripts, one carrying resources, was added to a resolver
\* that stores a style: the style is still the only one stored
C28_Witness ==
    /\ Len(calls[DefaultSets]) = 3
    /\ calls[DefaultSets][1].op = "add_style"
    /\ calls[DefaultSets][2].op = "add_script"
    /\ calls[DefaultSets][3].op = "add_script"
    /\ calls[DefaultSets][2].arg.path # calls[DefaultSets][3].arg.path
    /\ Cardinality(sets[DefaultSets].script_requirements) = 2
    /\ Cardinality(sets[DefaultSets].style_requirements) = 1
    /\ sets[DefaultSets].resource_preload # {}


\* ---------------------------------------------------------------------------
\* Elements of classes with default attributes are built and called
\* ---------------------------------------------------------------------------

DefaultsClasses == {"tagSCRIPT", "tagSTYLE", "tagFORM", "tagDIV"}

GivenAttrs ==
    {<<>>,
     <<Entry(<<"i", "d">>, Text(<<"x">>))>>,
     <<Entry(<<"t", "y", "p", "e">>, Text(<<"m">>))>>,
     <<Entry(<<"i", "d">>, Text(<<"y">>)), Entry(<<"m", "e", "t", "h", "o", "d">>, Text(<<"G">>))>>}

GivenData == {<<>>, <<Entry(<<"k">>, Text(<<"v">>))>>}

GivenArgs == {<<>>, <<Text(<<"c">>)>>}

GivenChildren == {<<>>, <<Text(<<"d">>)>>}

InitDefaults ==
    /\ pages = <<>>
    /\ sets = [address \in Addresses |-> EmptySets]
    /\ calls = [address \in Addresses |-> <<>>]
    /\ raised = "none"
    /\ NoTree
    /\ NoIO

\* template = cls(*args, escape_content = flag, whitespace_sensitive = flag,
\*                attrs = attrs, data = data)
ConstructWith(cls, args, flag, attrs, data) ==
    /\ template = Null
    /\ LET result == HTMLElement_init(heap, cls, args, <<>>, flag, flag, attrs, data)
       IN  /\ heap' = result.heap
           /\ template' = result.value
           /\ raised' = result.raised
    /\ request' = [op |-> "init", cls |-> cls, args |-> args, children |-> <<>>,
                   escape_content |-> flag, whitespace_sensitive |-> flag,
                   attrs |-> attrs, data |-> data]
    /\ response' = <<>>
    /\ UNCHANGED <<pages, sets, calls, clone, original, shared_changed, steps, threads>>

\* clone = template(*args, children = children, escape_content = ...,
\*                  whitespace_sensitive = ..., attrs = attrs, data = data);
\* an argument that is not passed has its default: no children, False, {}
CallWith(args, children, escape_content, whitespace_sensitive, attrs, data) ==
    /\ template # Null
    /\ clone = Null
    /\ LET result == HTMLElement_call(heap, template, args, children, escape_content,
                                      whitespace_sensitive, attrs, data)
       IN  /\ heap' = result.heap
           /\ clone' = result.value
           /\ raised' = result.raised
    /\ request' = [op |-> "call", cls |-> heap[template].cls, args |-> args,
                   children |-> children, escape_content |-> escape_content,
                   whitespace_sensitive |-> whitespace_sensitive,
                   attrs |-> attrs, data |-> data]
    /\ response' = <<>>
    /\ UNCHANGED <<pages, sets, calls, template, original, shared_changed, steps, threads>>

NextDefaults ==
    \/ \E cls \in DefaultsClasses, args \in GivenArgs, flag \in BOOLEAN,
          attrs \in GivenAttrs, data \in GivenData :
           ConstructWith(cls, args, flag, attrs, data)
    \/ \E args \in GivenArgs, children \in GivenChildren, escape_content \in BOOLEAN,
          whitespace_sensitive \in BOOLEAN, attrs \in GivenAttrs, data \in GivenData :
           CallWith(args, children, escape_content, whitespace_sensitive, attrs, data)

SpecDefaults == InitDefaults /\ [][NextDefaults]_vars

\* the value stored under the key in the items of a dict, None without one
ValueOf(items, key) == DictGet(EmptyHeap, Dict(items), key, None)

KeysOf(items) == {items[i].key : i \in 1..Len(items)}

\* the default attributes the classes declare
TypeKey == <<"t", "y", "p", "e">>

MethodKey == <<"m", "e", "t", "h", "o", "d">>

DeclaredDefault(cls, key) ==
    CASE cls = "tagSCRIPT" /\ key = TypeKey ->
             Text(<<"t", "e", "x", "t", "/", "j", "a", "v", "a", "s", "c", "r", "i", "p", "t">>)
      [] cls = "tagSTYLE" /\ key = TypeKey -> Text(<<"t", "e", "x", "t", "/", "c", "s", "s">>)
      [] cls = "tagFORM" /\ key = MethodKey -> Text(<<"P", "O", "S", "T">>)
      [] OTHER -> None

\* C29: the clone a call returns has the children, the attributes, the
\* data-attributes and the two flags of the call's arguments alone: what is
\* not passed is empty or False, nothing is inherited from the called node,
\* and the default attributes of the class are not applied again; the
\* constructor puts the default attributes of the class under the given ones
C29_CloneTakesArgumentsOnly ==
    /\ request # <<>> /\ request.op = "call" /\ clone # Null =>
           /\ heap[clone].cls = heap[template].cls
           /\ heap[clone].children = request.args \o request.children
           /\ heap[clone].attributes = request.attrs
           /\ heap[clone].data = request.data
           /\ heap[clone].escape_content = request.escape_content
           /\ heap[clone].whitespace_sensitive = request.whitespace_sensitive
    /\ request # <<>> /\ request.op = "init" /\ template # Null =>
           /\ heap[template].data = request.data
           /\ KeysOf(heap[template].attributes) =
                  KeysOf(request.attrs)
                      \cup {key \in {TypeKey, MethodKey} : DeclaredDefault(request.cls, key) # None}
           /\ \A key \in KeysOf(heap[template].attributes) :
                  ValueOf(heap[template].attributes, key) =
                      IF key \in KeysOf(request.attrs)
                      THEN ValueOf(request.attrs, key)
                      ELSE DeclaredDefault(request.cls, key)

\* a form built with a child, an id and both flags was called without
\* arguments: the clone has no child, no attribute and no flag, the form still
\* has its method and id
C29_Witness ==
    /\ request # <<>> /\ request.op = "call"
    /\ clone # Null
    /\ heap[template].cls = "tagFORM"
    /\ heap[template].children # <<>>
    /\ heap[template].escape_content
    /\ KeysOf(heap[template].attributes) = {<<"i", "d">>, MethodKey}
    /\ request.args = <<>> /\ request.children = <<>>
    /\ request.attrs = <<>>
    /\ heap[clone].attributes = <<>>
    /\ heap[clone].children = <<>>


\* ---------------------------------------------------------------------------
\* A tree of components is compiled again and again
\* ---------------------------------------------------------------------------

(***************************************************************************)
(* The requirement lists as objects.  _script_requirements and             *)
(* _style_requirements are attributes of the component classes, so the     *)
(* components of one class, and of the classes that do not declare their   *)
(* own, hold the same list objects.  A store is the sequence of the list   *)
(* objects; a list is referred to by its index in the store, and a new     *)
(* list is put at its end.                                                 *)
(***************************************************************************)
\* [*list]
ListCopy(store, list) ==
    [store |-> Append(store, store[list]), value |-> Len(store) + 1]

\* list + other
ListAdd(store, list, other) ==
    [store |-> Append(store, store[list] \o store[other]), value |-> Len(store) + 1]

\* list.extend(other)
ListExtend(store, list, other) == [store EXCEPT ![list] = @ \o store[other]]

\* the lists of an HTMLData and the store after the call that returned it
CompiledLists(store, script_requirements, style_requirements) ==
    [store |-> store,
     raised |-> "none",
     _script_requirements |-> script_requirements,
     _style_requirements |-> style_requirements]

\* the call raised: no HTMLData, and the store when the exception leaves
RaisedLists(store, name) ==
    [store |-> store,
     raised |-> name,
     _script_requirements |-> Null,
     _style_requirements |-> Null]

RECURSIVE _compile_lists(_, _)
RECURSIVE BaseContainer_compile_lists_loop(_, _, _, _, _)

\* BaseContainer._compile, the for loop from the child at index on
BaseContainer_compile_lists_loop(store, children, index, script_requirements, style_requirements) ==
    IF index > Len(children)
    THEN CompiledLists(store, script_requirements, style_requirements)
    ELSE LET compiled_child == _compile_lists(store, children[index])
         IN  IF compiled_child.raised # "none"
             THEN compiled_child
             ELSE BaseContainer_compile_lists_loop(
                      ListExtend(ListExtend(compiled_child.store, script_requirements,
                                            compiled_child._script_requirements),
                                 style_requirements, compiled_child._style_requirements),
                      children, index + 1, script_requirements, style_requirements)

\* mutant of BaseContainer_compile_lists: the lists of the component are
\* extended themselves, not copies of them
BaseContainer_compile_lists_in_place(store, self) ==
    BaseContainer_compile_lists_loop(store, self._children, 1,
                                     self._script_requirements.addr,
                                     self._style_requirements.addr)

\* BaseContainer._compile: what it does with the requirement lists
BaseContainer_compile_lists(store, self) ==
    LET script_requirements == ListCopy(store, self._script_requirements.addr)
        style_requirements  == ListCopy(script_requirements.store,
                                        self._style_requirements.addr)
    IN  BaseContainer_compile_lists_loop(style_requirements.store, self._children, 1,
                                         script_requirements.value,
                                         style_requirements.value)

\* BaseWrapper._compile: what it does with the requirement lists
BaseWrapper_compile_lists(store, self) ==
    LET compiled_child      == _compile_lists(store, self._child)
        script_requirements == ListAdd(compiled_child.store,
                                       self._script_requirements.addr,
                                       compiled_child._script_requirements)
        style_requirements  == ListAdd(script_requirements.store,
                                       self._style_requirements.addr,
                                       compiled_child._style_requirements)
    IN  IF compiled_child.raised # "none"
        THEN compiled_child
        ELSE CompiledLists(style_requirements.store, script_requirements.value,
                           style_requirements.value)

\* BaseWidget._compile: the HTMLData holds the lists of the component
BaseWidget_compile_lists(store, self) ==
    CompiledLists(store, self._script_requirements.addr, self._style_requirements.addr)

\* child._compile(global_context = global_context), dispatched on the class:
\* what it does with the requirement lists; BaseElement._compile raises
_compile_lists(store, self) ==
    CASE self.cls = "BaseContainer" -> BaseContainer_compile_lists(store, self)
      [] self.cls = "BaseWrapper" -> BaseWrapper_compile_lists(store, self)
      [] self.cls = "BaseWidget" -> BaseWidget_compile_lists(store, self)
      [] OTHER -> RaisedLists(store, "NotImplementedError")

\* the lists of the classes: those of BaseElement, which are empty, and those
\* a subclass declares
ClassLists == <<<<>>, <<>>, <<"a.js">>, <<"a.css">>>>

\* the _script_requirements and _style_requirements of a component
DeclaredLists == {<<Ref(1), Ref(2)>>, <<Ref(3), Ref(4)>>}

SharingWidgets ==
    {[cls |-> "BaseWidget", _text |-> <<"t">>, _script_requirements |-> lists[1],
      _style_requirements |-> lists[2]] : lists \in DeclaredLists}

SharingWrappers(components) ==
    {[cls |-> "BaseWrapper", _child |-> child, _script_requirements |-> lists[1],
      _style_requirements |-> lists[2]] :
        child \in components, lists \in DeclaredLists}

SharingContainers(first, others) ==
    {[cls |-> "BaseContainer", _children |-> children,
      _script_requirements |-> lists[1], _style_requirements |-> lists[2]] :
        children \in {<<>>} \cup
                     UNION {{<<child>> \o rest : child \in first, rest \in [1 .. n -> others]} :
                            n \in 0 .. (MaxChildren - 1)},
        lists \in DeclaredLists}

\* component trees as Components, their lists being references
SharingComponents ==
    LET flat == SharingWrappers(SharingWidgets)
                    \cup SharingContainers(SharingWidgets, SharingWidgets)
    IN  SharingWidgets \cup flat \cup SharingWrappers(flat)
        \cup SharingContainers(flat, SharingWidgets)
        \cup WithoutCompile(<<Ref(3), Ref(4)>>)

\* the component with the lists in place of the references to them
RECURSIVE WithLists(_, _)
WithLists(store, self) ==
    LET own == [self EXCEPT !._script_requirements = store[@.addr],
                            !._style_requirements = store[@.addr]]
    IN  CASE self.cls = "BaseContainer" ->
                 [own EXCEPT !._children =
                     [i \in 1..Len(@) |-> WithLists(store, self._children[i])]]
          [] self.cls = "BaseWrapper" ->
                 [own EXCEPT !._child = WithLists(store, @)]
          [] OTHER -> own

\* the store of the lists of the classes, held in the heap
StoredLists == [i \in DOMAIN ClassLists |-> heap[i].items]

InitRecompile ==
    /\ pages = <<>>
    /\ sets = [address \in Addresses |-> EmptySets]
    /\ calls = [address \in Addresses |-> <<>>]
    /\ raised = "none"
    /\ heap = [address \in HeapAddresses |->
                  IF address \in DOMAIN ClassLists
                  THEN PyList(ClassLists[address])
                  ELSE Free]
    /\ template = Null
    /\ clone = Null
    /\ original = <<>>
    /\ shared_changed = FALSE
    /\ steps = 0
    /\ \E component \in SharingComponents :
           request = [op |-> "compile", component |-> component]
    /\ response = <<>>
    /\ threads = <<>>

\* response = component._compile(); original is what the first call returned
Recompile ==
    /\ request # <<>>
    /\ request.op = "compile"
    /\ steps < MaxSteps
    /\ LET compiled == _compile_lists(StoredLists, request.component)
           returned ==
               HTMLData(_compile(WithLists(StoredLists, request.component),
                                 EmptyContext)._code,
                        compiled.store[compiled._script_requirements],
                        compiled.store[compiled._style_requirements])
       IN  /\ heap' = [address \in HeapAddresses |->
                          IF address \in DOMAIN ClassLists
                          THEN PyList(compiled.store[address])
                          ELSE Free]
           /\ raised' = compiled.raised
           /\ IF compiled.raised # "none"
              THEN response' = <<>> /\ original' = original
              ELSE /\ response' = returned
                   /\ original' = IF steps = 0 THEN returned ELSE original
    /\ steps' = steps + 1
    /\ UNCHANGED <<pages, sets, calls, template, clone, shared_changed, request,
                   threads>>

NextRecompile == Recompile

SpecRecompile == InitRecompile /\ [][NextRecompile]_vars

\* C30: _compile changes neither the requirement lists of the component nor
\* those of its children, which may be the lists of their classes: however
\* often the tree is compiled, the lists are as they were, also when the call
\* raises, and the lists returned are equal to those returned the first time
C30_ListsDoNotAccumulate ==
    request # <<>> /\ request.op = "compile" =>
        /\ StoredLists = ClassLists
        /\ response # <<>> =>
               /\ response._script_requirements = original._script_requirements
               /\ response._style_requirements = original._style_requirements

\* a container of a wrapped widget and a widget, the container and the wrapped
\* widget holding the lists of BaseElement and the wrapper and the other
\* widget the lists a subclass declares, was compiled MaxSteps times
C30_Witness ==
    /\ request # <<>> /\ request.op = "compile" /\ response # <<>>
    /\ steps = MaxSteps
    /\ request.component.cls = "BaseContainer"
    /\ request.component._script_requirements = Ref(1)
    /\ Len(request.component._children) = 2
    /\ request.component._children[1].cls = "BaseWrapper"
    /\ request.component._children[1]._script_requirements = Ref(3)
    /\ request.component._children[1]._child._script_requirements = Ref(1)
    /\ request.component._children[2]._script_requirements = Ref(3)
    /\ response._script_requirements = <<"a.js", "a.js">>

=============================================================================
